---- MODULE Spec2Model ----
(***************************************************************************)
(* The streaming agent loop of api/libs/agents/src/agent.rs: one Agent, one *)
(* call of process_thread_streaming, the task it spawns (the recursive      *)
(* process_thread_with_depth raced against the shutdown receiver), the      *)
(* broadcast stream, the shutdown channel and the caller.                   *)
(***************************************************************************)
EXTENDS Integers, Sequences, FiniteSets, TLC

\* ------------------------------------------------------------------ bounds
\* Recursion cap of process_thread_with_depth (`recursion_depth >= 15`).
MaxDepth == 15
\* Steps at depth < RichDepth receive an arbitrary LLM response of at most
\* MaxChunks chunks; deeper steps receive a response of exactly one tool-call
\* chunk (any tool the plain alphabet names), so that a run can reach the cap.
RichDepth == 1
MaxChunks == 2
\* The spawned task may take at most MaxLead steps before the caller of
\* process_thread_streaming has taken its stream receiver.
MaxLead == 2

\* ------------------------------------------------------------------ values
NoId == 0                       \* an absent id (Option::None, "" once unwrapped)
NONE == "none"                  \* Option::None of a string field
WEATHER == "get_weather"
METRICS == "update_metrics"
DONE_TOOL == "done"
MAGIC == "do_magic"             \* never registered: a hallucinated tool name
ToolNames == {WEATHER, METRICS, DONE_TOOL, MAGIC}
\* Text (content, arguments) is a sequence of characters; push_str is \o.
ARGS_OK == <<"{", "}">>         \* arguments text serde_json parses
ARGS_BAD == <<"{">>             \* arguments text serde_json rejects

\* AgentMessage constructors (litellm::AgentMessage)
UserMsg(c) == [type |-> "user", content |-> c]
DeveloperMsg(c) == [type |-> "developer", content |-> c]
AssistantMsg(id, c, tcs, prog, init) ==
    [type |-> "assistant", id |-> id, content |-> c, tool_calls |-> tcs,
     progress |-> prog, initial |-> init]
ToolMsg(c, callId, name, prog) ==
    [type |-> "tool", call_id |-> callId, name |-> name, content |-> c,
     progress |-> prog]
DoneMsg == [type |-> "done"]
\* Err(AgentError(..)) on the stream
ErrEvent == [type |-> "err"]

\* The canned messages
CapMsg == AssistantMsg(-1, <<"max_recursion_depth">>, <<>>, "Complete", NONE)
ShutdownMsg == AssistantMsg(-2, <<"shutdown">>, <<>>, "Complete", NONE)

\* ------------------------------------------------------------- accumulator
\* All orders in which a HashMap may iterate over the entries S.
Orders(S) ==
    {o \in [1..Cardinality(S) -> S] : \A i, j \in DOMAIN o : i # j => o[i] # o[j]}

\* DeltaToolCall of one chunk: absent fields are NoId / NONE; absent
\* arguments are the empty text (push_str of nothing).
Delta(id, ty, name, args) ==
    [id |-> id, call_type |-> ty, name |-> name, arguments |-> args]

\* PendingToolCall::default(), stored under `key` in buffer.tool_calls
PendingDefault(key) ==
    [key |-> key, id |-> NoId, call_type |-> NONE, function_name |-> NONE,
     arguments |-> <<>>]

update_from_delta(p, d) ==
    [p EXCEPT !.id = IF d.id # NoId THEN d.id ELSE @,
              !.call_type = IF d.call_type # NONE THEN d.call_type ELSE @,
              !.function_name = IF d.name # NONE THEN d.name ELSE @,
              !.arguments = @ \o d.arguments]

into_tool_call(p) ==
    [id |-> p.id,
     name |-> IF p.function_name = NONE THEN "" ELSE p.function_name,
     arguments |-> p.arguments,
     call_type |-> IF p.call_type = NONE THEN "" ELSE p.call_type]

\* MessageBuffer::new()
NewBuffer ==
    [content |-> <<>>, tool_calls |-> {}, message_id |-> NoId,
     first_message_sent |-> FALSE]

has_changes(b) == b.content # <<>> \/ b.tool_calls # {}

\* The key a tool-call delta is filed under: its id, else the first key the
\* map iterates to (any key), else a fresh uuid (negative numbers).
DeltaKeys(b, d) ==
    IF d.id # NoId THEN {d.id}
    ELSE IF b.tool_calls # {} THEN {p.key : p \in b.tool_calls}
    ELSE {0 - 100}

\* entry(key).or_default() followed by update_from_delta
MergeDelta(b, d, key) ==
    LET old == IF \E p \in b.tool_calls : p.key = key
               THEN CHOOSE p \in b.tool_calls : p.key = key
               ELSE PendingDefault(key)
    IN  [b EXCEPT !.tool_calls = (@ \ {old}) \cup {update_from_delta(old, d)}]

\* The loop over delta.tool_calls: every buffer it can leave, starting from
\* one of the buffers bs (one per choice of key for the id-less deltas).
RECURSIVE MergeDeltas(_, _)
MergeDeltas(bs, deltas) ==
    IF deltas = <<>> THEN bs
    ELSE MergeDeltas({MergeDelta(b, Head(deltas), key) :
                          b \in bs, key \in UNION {DeltaKeys(x, Head(deltas)) : x \in bs}},
                     Tail(deltas))

\* One chunk with a non-empty choices array: id, content delta (empty text
\* when absent) and tool-call deltas (empty when absent).
Accumulate(b, chunk) ==
    MergeDeltas({[b EXCEPT !.message_id = chunk.id, !.content = @ \o chunk.content]},
                chunk.tool_calls)

\* The ToolCalls of the pending calls taken in iteration order `order`
CallsIn(order) == [i \in DOMAIN order |-> into_tool_call(order[i])]

\* The InProgress snapshot flush() sends: the calls that already have a name
NamedCalls(order) ==
    LET named == SelectSeq(order, LAMBDA p : p.function_name # NONE)
    IN  CallsIn(named)

FlushMsg(b, order) ==
    AssistantMsg(b.message_id, b.content, NamedCalls(order), "InProgress",
                 IF b.first_message_sent THEN "false" ELSE "true")

\* Mutant: the final message is sent with the snapshots' progress
FinalMsg_InProgress(b, order) ==
    AssistantMsg(b.message_id, b.content, CallsIn(order), "InProgress", "false")

\* Mutant: the final message is built without the pending tool calls
FinalMsg_NoCalls(b, order) ==
    AssistantMsg(b.message_id, b.content, <<>>, "Complete", "false")

FinalMsg(b, order) ==
    AssistantMsg(b.message_id, b.content, CallsIn(order), "Complete", "false")

\* ------------------------------------------------------------------- state
VARIABLES
    \* Agent fields
    tools,                  \* names in the tool registry (HashMap keys)
    terminating_tool_names, \* names that end the loop once executed
    state,                  \* the state store
    current_thread,         \* Option<AgentThread>: [some, messages]
    stream_tx,              \* TRUE while stream_tx holds Some(sender)
    \* channels
    stream,                 \* what was handed to the stream sender, in order
    shutdown_rx,            \* the task's shutdown receiver: "none", "empty", "fired"
    \* the caller of process_thread_streaming
    caller,                 \* "idle", "spawned", "subscribed", "failed"
    rx_from,                \* events already sent when the receiver subscribed
    lead,                   \* task steps taken while the caller had no receiver yet
    \* the spawned task
    pc,                     \* "idle", "spawned", "mode", "open", "chunks", "tool", "done"
    polled,                 \* the loop was polled once more after shutdown fired
    depth,                  \* recursion_depth of the current step
    thread,                 \* thread_ref.messages of the current step
    snapshot,               \* `state` of line 630, handed to the mode provider
    buffer,                 \* MessageBuffer of the current step
    nchunks,                \* chunks received in the current step
    updated_thread,         \* updated_thread_for_recursion.messages
    calls,                  \* tool calls not yet dispatched (head: in flight)
    results,                \* `results` of the dispatch loop
    ended,                  \* how the run ended
    \* observation
    llm_requests,           \* the ChatCompletionRequests issued, in order
    dispatched,             \* the tool calls the dispatch loop took, in order
    appended,               \* the messages update_current_thread was given
    \* an agent made with from_existing
    sub,                    \* its fields, its task and what it sent
    \* the accumulator observed on its own
    fed,                    \* the tool-call deltas fed to `buffer`, where each went
    \* the state store observed on its own
    last_op,                \* the last operation on the store and what it wrote
    \* process_thread, the caller that collects the stream
    pt,                     \* events taken, final_message, what it returned
    added,                  \* names registered with add_tool before the run
    shutdown_err,           \* a shutdown() found no receiver and returned Err
    lock_wait               \* the lock a call made inside the loop is waiting for

vars == <<tools, terminating_tool_names, state, current_thread, stream_tx,
          stream, shutdown_rx, caller, rx_from, lead, pc, polled, depth,
          thread, snapshot, buffer, nchunks, updated_thread, calls, results,
          ended, llm_requests, dispatched, appended, sub, fed, last_op, pt, added,
          shutdown_err, lock_wait>>

agentVars == <<tools, terminating_tool_names, state, current_thread, stream_tx>>
callerVars == <<caller, rx_from>>
stepVars == <<buffer, nchunks, updated_thread, calls, results>>
logVars == <<llm_requests, dispatched, appended>>
auxVars == <<fed, last_op, pt, added, shutdown_err, lock_wait>>

\* ------------------------------------------------------------ environment
\* The keys of the state store that the mode provider, a tool or an
\* enablement condition looks at
StateKeys == {"review_needed", "weather_enabled", "user_prompt"}

\* The threads a caller submits
InputThreads == {<<UserMsg(<<"weather?">>)>>}

\* The mode provider of the agent: the configuration for a state snapshot.
\* tool_loader installs `tools`; terminating_tools replaces the agent's list.
\* Mutant: the registry is not cleared before the loader runs
clear_tools_Keeps(ts) == ts

\* self.tools.write().await.clear()
clear_tools(ts) == {}

\* The mode's loader calls add_tool for each of its tools: tools.insert(name, ..)
tool_loader(ts, loaded) == ts \cup loaded

ModeConfiguration(st) ==
    IF st["review_needed"] = "true"
    THEN [prompt |-> <<"review">>, tools |-> {WEATHER, DONE_TOOL},
          terminating_tools |-> {DONE_TOOL}]
    ELSE [prompt |-> <<"analysis">>, tools |-> {WEATHER, METRICS, DONE_TOOL},
          terminating_tools |-> {DONE_TOOL}]

\* Mutant: a tool's execute writes nothing to the state
ToolEffect_None(name, st) == st

\* The state a tool's successful execute leaves: update_metrics sets
\* review_needed, the other tools write nothing.
ToolEffect(name, st) ==
    IF name = METRICS THEN [st EXCEPT !["review_needed"] = "true"] ELSE st

\* serde_json::to_string(&result) of a tool's output
ResultText(name) == <<"ok">>

\* Ids the LLM assigns: one per completion, one per tool call
CompletionId(d) == d + 1
CallId(d, k) == 10 * (d + 1) + k

ContentChunk(d) ==
    [id |-> CompletionId(d), content |-> <<"a">>, tool_calls |-> <<>>]
ToolChunk(d, k, name, args) ==
    [id |-> CompletionId(d), content |-> <<>>,
     tool_calls |-> <<Delta(CallId(d, k), "function", name, args)>>]

\* A chunk that continues the arguments of the call the LLM has opened: its
\* delta has no id and no name
ArgsChunk(d) ==
    [id |-> CompletionId(d), content |-> <<>>,
     tool_calls |-> <<Delta(NoId, NONE, NONE, <<"}">>)>>]

\* The LLM continues only a call it has opened in this response
Continues(b, chunk) ==
    \A i \in DOMAIN chunk.tool_calls :
        chunk.tool_calls[i].id = NoId => b.tool_calls # {}

\* (name, arguments) of the tool calls the LLM may request
RichCalls == {<<WEATHER, ARGS_OK>>, <<WEATHER, ARGS_BAD>>, <<METRICS, ARGS_OK>>,
              <<DONE_TOOL, ARGS_OK>>, <<MAGIC, ARGS_OK>>}
PlainCalls == {<<WEATHER, ARGS_OK>>, <<WEATHER, ARGS_BAD>>, <<DONE_TOOL, ARGS_OK>>}

\* The chunks the LLM may send as chunk number k of the step at depth d
Chunks(d, k) ==
    IF d < RichDepth
    THEN {ContentChunk(d), ArgsChunk(d)}
             \cup {ToolChunk(d, k, c[1], c[2]) : c \in RichCalls}
    ELSE {ToolChunk(d, k, c[1], c[2]) : c \in PlainCalls}

\* should_flush(): 50 ms have passed since the last flush. Time is not
\* modelled: either answer is possible (only one in the plain steps).
FlushChoices(d) == IF d < RichDepth THEN BOOLEAN ELSE {FALSE}

\* The LLM may close its stream after k chunks
MayEnd(d, k) == IF d < RichDepth THEN TRUE ELSE k = 1
MayChunk(d, k) == IF d < RichDepth THEN k < MaxChunks ELSE k = 0

\* ------------------------------------------------------------ the program
\* get_stream_sender() and send: a cleared sender drops the event
Send(strm, tx, ev) == IF tx THEN Append(strm, ev) ELSE strm

\* Mutant: the cap compared off by one
DepthExceeded_OffByOne(d) == d > MaxDepth

\* `if recursion_depth >= 15`
DepthExceeded(d) == d >= MaxDepth

\* agent_tools.get(&tool_call.function.name)
Lookup(name) == name \in tools

\* serde_json::from_str(&tool_call.function.arguments)
Parses(args) == args = ARGS_OK

\* Mutant: the terminating list is never consulted
IsTerminating_Never(name) == FALSE

\* terminating_names.contains(&tool_call.function.name)
IsTerminating(name) == name \in terminating_tool_names

\* Mutant: the thread's Developer messages are not filtered out
LlmMessages_KeepsDeveloper(prompt, msgs) == <<DeveloperMsg(prompt)>> \o msgs

\* The messages of the LLM request: the mode prompt, then the thread without
\* its Developer messages
LlmMessages(prompt, msgs) ==
    <<DeveloperMsg(prompt)>> \o SelectSeq(msgs, LAMBDA m : m.type # "developer")

\* The enablement_condition a tool is registered with, applied to the state
\* `st`: get_weather carries the condition "weather_enabled is true"
\* (absent or not a bool: false); the other tools are registered with None.
IsEnabled(name, st) ==
    IF name = WEATHER THEN st["weather_enabled"] = "true" ELSE TRUE

\* Mutant: every registered tool is offered
EnabledTools_All(reg, st) == reg

\* get_enabled_tools: the registered tools whose condition holds on `st`
EnabledTools(reg, st) == {name \in reg : IsEnabled(name, st)}

\* Mutant: the Tool message of a result loses the call's id
ToolResultMsg_NoCallId(call) ==
    ToolMsg(ResultText(call.name), NoId, call.name, "Complete")

\* AgentMessage::tool(None, result_str, tool_call.id, name, Complete)
ToolResultMsg(call) == ToolMsg(ResultText(call.name), call.id, call.name, "Complete")
\* The Tool message {"error": "Attempted to call non-existent tool: .."}
UnknownToolMsg(call) == ToolMsg(<<"error">>, call.id, call.name, "Complete")

\* Mutant: flush reports the missing sender to its caller
flush_result_ErrWhenClosed(b, tx) == IF tx THEN "Ok" ELSE "Err"

\* What flush() returns to `buffer.flush(&agent).await?`: a missing sender and
\* a failed send are logged, and every path ends in Ok(())
flush_result(b, tx) == "Ok"

\* The JSON values kept in the store: booleans, Null, a string; "absent" is
\* the Option::None of a key the map does not hold
StoreValues == {"false", "true", "null", "text"}

\* Mutant: an insert keeps the value a key already has
insert_KeepsOld(st, k, v) == IF st[k] = "absent" THEN [st EXCEPT ![k] = v] ELSE st

\* HashMap::insert(key, value)
insert(st, k, v) == [st EXCEPT ![k] = v]

\* get_state_value: self.state.read().await.get(key).cloned()
get_state_value(st, k) == st[k]

\* state_key_exists: contains_key(key)
state_key_exists(st, k) == st[k] # "absent"

\* get_state_bool: get(key).and_then(|v| v.as_bool())
get_state_bool(st, k) == IF st[k] \in {"false", "true"} THEN st[k] ELSE "absent"

\* No operation on the store yet
NoOp == [op |-> "none", written |-> [k \in {} |-> "absent"]]

\* Mutant: a flush empties the content it has sent
Flushed_ClearsContent(b) == [b EXCEPT !.first_message_sent = TRUE, !.content = <<>>]

\* The buffer after flush() has sent its snapshot: nothing is cleared
Flushed(b) == [b EXCEPT !.first_message_sent = TRUE]

\* update_current_thread: push onto the thread, if there is one
Push(cur, m) == IF cur.some THEN [cur EXCEPT !.messages = Append(@, m)] ELSE cur

MarkLast(ex, status) == [ex EXCEPT ![Len(ex)].status = status]

\* What is recorded of a tool call the dispatch loop takes
Taken(call, status) ==
    [id |-> call.id, name |-> call.name, depth |-> depth, status |-> status,
     terminating |-> terminating_tool_names, tx |-> stream_tx]

\* The dispatch loop from the tool call Head(cs) to its next suspension: the
\* execute of a registered tool ("exec"), a fatal argument error
\* ("parse_err") or the end of the loop ("end").
RECURSIVE Dispatch(_, _, _, _, _, _)
Dispatch(cs, strm, cur, res, ex, app) ==
    IF cs = <<>>
    THEN [kind |-> "end", calls |-> cs, stream |-> strm, current |-> cur,
          results |-> res, dispatched |-> ex, appended |-> app]
    ELSE IF Lookup(Head(cs).name)
    THEN IF Parses(Head(cs).arguments)
         THEN [kind |-> "exec", calls |-> cs, stream |-> strm, current |-> cur,
               results |-> res, dispatched |-> Append(ex, Taken(Head(cs), "running")),
               appended |-> app]
         ELSE [kind |-> "parse_err", calls |-> cs, stream |-> strm, current |-> cur,
               results |-> res, dispatched |-> Append(ex, Taken(Head(cs), "parse_err")),
               appended |-> app]
    ELSE Dispatch(Tail(cs), Send(strm, stream_tx, UnknownToolMsg(Head(cs))),
                  Push(cur, UnknownToolMsg(Head(cs))), res,
                  Append(ex, Taken(Head(cs), "unknown")),
                  Append(app, UnknownToolMsg(Head(cs))))

\* Mutant: a returned error is not reported on the stream
Finish_NoErrEvent(reason, isErr, strm, tx) ==
    /\ stream' = Send(strm, tx, DoneMsg)
    /\ stream_tx' = tx
    /\ pc' = "done"
    /\ shutdown_rx' = "none"
    /\ ended' = reason

\* The first arm of select!: process_thread_with_depth returned; an error is
\* sent as an Err event, then Done is sent, and the task ends.
Finish(reason, isErr, strm, tx) ==
    /\ stream' = Send(IF isErr THEN Send(strm, tx, ErrEvent) ELSE strm, tx, DoneMsg)
    /\ stream_tx' = tx
    /\ pc' = "done"
    /\ shutdown_rx' = "none"
    /\ ended' = reason

\* Entry of process_thread_with_depth at depth d with thread th: install the
\* thread, check the depth, snapshot the state and call the mode provider.
Enter(d, th, strm, st) ==
    /\ current_thread' = [some |-> TRUE, messages |-> th]
    /\ thread' = th
    /\ depth' = d
    /\ IF DepthExceeded(d)
       THEN /\ Finish("cap", FALSE, Send(strm, stream_tx, CapMsg), FALSE)
            /\ snapshot' = snapshot
       ELSE /\ snapshot' = st
            /\ pc' = "mode"
            /\ stream' = strm
            /\ UNCHANGED <<stream_tx, shutdown_rx, ended>>

\* What follows the dispatch loop's run r: the next execute, the failure, or
\* the recursive call with updated_thread_for_recursion extended by results.
AfterDispatch(r, upd, st) ==
    /\ calls' = r.calls
    /\ results' = r.results
    /\ updated_thread' = upd
    /\ dispatched' = r.dispatched
    /\ appended' = r.appended
    /\ CASE r.kind = "exec" ->
              /\ current_thread' = r.current
              /\ stream' = r.stream
              /\ pc' = "tool"
              /\ UNCHANGED <<stream_tx, shutdown_rx, ended, depth, thread, snapshot>>
         [] r.kind = "parse_err" ->
              /\ current_thread' = r.current
              /\ Finish("parse_error", TRUE, r.stream, stream_tx)
              /\ UNCHANGED <<depth, thread, snapshot>>
         [] r.kind = "end" ->
              Enter(depth + 1, upd \o r.results, r.stream, st)

\* A poll of the process future: not once shutdown has fired and the future
\* was polled since; bounded while the caller has not subscribed.
TaskStep(at) ==
    /\ pc = at
    /\ ~(shutdown_rx = "fired" /\ polled)
    /\ caller = "spawned" => lead < MaxLead
    /\ polled' = (shutdown_rx = "fired")
    /\ lead' = IF caller = "spawned" THEN lead + 1 ELSE lead
    /\ UNCHANGED <<callerVars, sub, auxVars>>

\* ------------------------------------------------------------------ actions
\* ------------------------------------------------ an agent from_existing
\* What Arc::new gives a field of a new agent: an empty registry, an empty
\* terminating list, an empty state, no thread, a channel of its own
FreshFields ==
    [tools |-> {}, terminating_tool_names |-> {},
     state |-> [k \in StateKeys |-> "absent"],
     current_thread |-> [some |-> FALSE, messages |-> <<>>],
     stream_tx |-> TRUE, stream |-> <<>>]

\* Mutant: the derived agent shares the registry and the terminating list
from_existing_SharedTools ==
    [tools |-> "shared", terminating_tool_names |-> "shared", state |-> "shared",
     current_thread |-> "shared", stream_tx |-> "shared", shutdown_tx |-> "shared"]

\* Mutant: the derived agent gets a stream channel of its own
from_existing_OwnStream ==
    [tools |-> "fresh", terminating_tool_names |-> "fresh", state |-> "shared",
     current_thread |-> "shared", stream_tx |-> "fresh", shutdown_tx |-> "shared"]

\* Agent::from_existing: per field, Arc::new (a fresh value) or Arc::clone
\* of the existing agent's field (the same value)
from_existing ==
    [tools |-> "fresh", terminating_tool_names |-> "fresh", state |-> "shared",
     current_thread |-> "shared", stream_tx |-> "shared", shutdown_tx |-> "shared"]

\* No derived agent yet
NoSub ==
    [made |-> FALSE,
     refs |-> [tools |-> "none", terminating_tool_names |-> "none", state |-> "none",
               current_thread |-> "none", stream_tx |-> "none", shutdown_tx |-> "none"],
     own |-> FreshFields,
     shutdown_rx |-> "none",
     pc |-> "idle", depth |-> 0, buffer |-> NewBuffer, nchunks |-> 0,
     updated_thread |-> <<>>, calls |-> <<>>, results |-> <<>>,
     sent |-> <<>>, ended |-> "none"]

\* The fields as the derived agent reaches them through its Arcs
SubView ==
    [tools |-> IF sub.refs.tools = "shared" THEN tools ELSE sub.own.tools,
     terminating_tool_names |->
         IF sub.refs.terminating_tool_names = "shared"
         THEN terminating_tool_names ELSE sub.own.terminating_tool_names,
     state |-> IF sub.refs.state = "shared" THEN state ELSE sub.own.state,
     current_thread |-> IF sub.refs.current_thread = "shared"
                        THEN current_thread ELSE sub.own.current_thread,
     stream_tx |-> IF sub.refs.stream_tx = "shared" THEN stream_tx ELSE sub.own.stream_tx,
     stream |-> IF sub.refs.stream_tx = "shared" THEN stream ELSE sub.own.stream]

\* The derived agent leaves the fields as v and its own task as `local`
SubCommit(v, local) ==
    /\ tools' = IF sub.refs.tools = "shared" THEN v.tools ELSE tools
    /\ terminating_tool_names' =
           IF sub.refs.terminating_tool_names = "shared"
           THEN v.terminating_tool_names ELSE terminating_tool_names
    /\ state' = IF sub.refs.state = "shared" THEN v.state ELSE state
    /\ current_thread' = IF sub.refs.current_thread = "shared"
                         THEN v.current_thread ELSE current_thread
    /\ stream_tx' = IF sub.refs.stream_tx = "shared" THEN v.stream_tx ELSE stream_tx
    /\ stream' = IF sub.refs.stream_tx = "shared" THEN v.stream ELSE stream
    /\ sub' = [local EXCEPT !.own =
           [tools |-> IF sub.refs.tools = "shared" THEN @.tools ELSE v.tools,
            terminating_tool_names |->
                IF sub.refs.terminating_tool_names = "shared"
                THEN @.terminating_tool_names ELSE v.terminating_tool_names,
            state |-> IF sub.refs.state = "shared" THEN @.state ELSE v.state,
            current_thread |-> IF sub.refs.current_thread = "shared"
                               THEN @.current_thread ELSE v.current_thread,
            stream_tx |-> IF sub.refs.stream_tx = "shared" THEN @.stream_tx ELSE v.stream_tx,
            stream |-> IF sub.refs.stream_tx = "shared" THEN @.stream ELSE v.stream]]

\* The variables only the first agent's run and its caller touch
runVars_NoAux == <<shutdown_rx, caller, rx_from, lead, pc, polled, depth, thread,
                   snapshot, stepVars, ended, logVars>>
runVars == <<runVars_NoAux, auxVars>>

Init ==
    /\ tools = {}
    /\ terminating_tool_names = {}
    /\ state = [k \in StateKeys |-> "absent"]
    /\ current_thread = [some |-> FALSE, messages |-> <<>>]
    /\ stream_tx = TRUE
    /\ stream = <<>>
    /\ shutdown_rx = "none"
    /\ caller = "idle"
    /\ rx_from = 0
    /\ lead = 0
    /\ pc = "idle"
    /\ polled = FALSE
    /\ depth = 0
    /\ thread = <<>>
    /\ snapshot = state
    /\ buffer = NewBuffer
    /\ nchunks = 0
    /\ updated_thread = <<>>
    /\ calls = <<>>
    /\ results = <<>>
    /\ ended = "none"
    /\ llm_requests = <<>>
    /\ dispatched = <<>>
    /\ appended = <<>>
    /\ sub = NoSub
    /\ fed = <<>>
    /\ last_op = NoOp
    /\ pt = [taken |-> 0, final_message |-> <<>>, returned |-> "no"]
    /\ added = {}
    /\ shutdown_err = FALSE
    /\ lock_wait = "none"

\* Agent::close, called by the owner before a run
Close ==
    /\ pc = "idle"
    /\ stream_tx
    /\ stream_tx' = FALSE
    /\ UNCHANGED <<sub, auxVars, tools, terminating_tool_names, state, current_thread, stream,
                   shutdown_rx, caller, rx_from, lead, pc, polled, depth, thread,
                   snapshot, buffer, nchunks, updated_thread, calls, results,
                   ended, llm_requests, dispatched, appended>>

\* Mutant: a new receiver is handed the signal that was sent before it
get_shutdown_receiver_Replays(unheard) == IF unheard THEN "fired" ELSE "empty"

\* shutdown_tx.subscribe(): the receiver starts behind everything sent so far
get_shutdown_receiver(unheard) == "empty"

\* shutdown_tx.send(()): Err when the channel has no receiver
send_shutdown(rx) == IF rx = "none" THEN "Err" ELSE "Ok"

\* process_thread_streaming up to tokio::spawn: subscribe to shutdown, spawn
StartRun ==
    /\ pc = "idle"
    /\ caller = "idle"
    /\ \E th \in InputThreads : thread' = th
    /\ shutdown_rx' = get_shutdown_receiver(shutdown_err)
    /\ pc' = "spawned"
    /\ caller' = "spawned"
    /\ UNCHANGED <<sub, auxVars, agentVars, stream, rx_from, lead, polled, depth, snapshot,
                   stepVars, ended, logVars>>

\* process_thread_streaming after the spawn: get_stream_receiver
Subscribe ==
    /\ caller = "spawned"
    /\ IF stream_tx
       THEN caller' = "subscribed" /\ rx_from' = Len(stream)
       ELSE caller' = "failed" /\ rx_from' = rx_from
    /\ lead' = 0
    /\ UNCHANGED <<sub, auxVars, agentVars, stream, shutdown_rx, pc, polled, depth, thread,
                   snapshot, stepVars, ended, logVars>>

\* Agent::shutdown: send on the shutdown channel; an error without receivers
Shutdown ==
    \/ /\ shutdown_rx = "none"
       /\ UNCHANGED vars
    \/ /\ shutdown_rx = "empty"
       /\ shutdown_rx' = "fired"
       /\ sub' = IF sub.refs.shutdown_tx = "shared" /\ sub.shutdown_rx = "empty"
                 THEN [sub EXCEPT !.shutdown_rx = "fired"] ELSE sub
       /\ UNCHANGED <<agentVars, stream, caller, rx_from, lead, pc, polled, depth,
                      thread, snapshot, stepVars, ended, logVars, auxVars>>

\* The task's first poll: process_thread_with_depth(.., 0, None, None)
BeginRun ==
    /\ TaskStep("spawned")
    /\ Enter(0, thread, stream, state)
    /\ UNCHANGED <<tools, terminating_tool_names, state, stepVars, logVars>>

\* get_configuration_for_state returned an error
ModeProviderFails ==
    /\ TaskStep("mode")
    /\ Finish("mode_error", TRUE, stream, stream_tx)
    /\ UNCHANGED <<tools, terminating_tool_names, state, current_thread, depth,
                   thread, snapshot, stepVars, logVars>>

\* The configuration's tool_loader returned an error, after clear_tools
ToolLoaderFails ==
    /\ TaskStep("mode")
    /\ tools' = clear_tools(tools)
    /\ Finish("loader_error", TRUE, stream, stream_tx)
    /\ UNCHANGED <<terminating_tool_names, state, current_thread, depth, thread,
                   snapshot, stepVars, logVars>>

\* Lines 631-694: apply the configuration, compose and issue the request
ApplyMode ==
    /\ TaskStep("mode")
    /\ LET cfg == ModeConfiguration(snapshot) IN
       /\ tools' = tool_loader(clear_tools(tools), cfg.tools)
       /\ terminating_tool_names' = cfg.terminating_tools
       /\ llm_requests' = Append(llm_requests,
              [depth |-> depth,
               messages |-> LlmMessages(cfg.prompt, current_thread.messages),
               tools |-> EnabledTools(cfg.tools, state),
               registry |-> tool_loader(clear_tools(tools), cfg.tools),
               snapshot |-> snapshot,
               state |-> state])
    /\ pc' = "open"
    /\ UNCHANGED <<state, current_thread, stream_tx, stream, shutdown_rx, depth,
                   thread, snapshot, stepVars, ended, dispatched, appended>>

\* stream_chat_completion returned the chunk receiver
OpenStream ==
    /\ TaskStep("open")
    /\ buffer' = NewBuffer
    /\ nchunks' = 0
    /\ pc' = "chunks"
    /\ UNCHANGED <<agentVars, stream, shutdown_rx, depth, thread, snapshot,
                   updated_thread, calls, results, ended, logVars>>

\* stream_chat_completion returned an error
OpenStreamFails ==
    /\ TaskStep("open")
    /\ Finish("open_error", TRUE, stream, stream_tx)
    /\ UNCHANGED <<tools, terminating_tool_names, state, current_thread, depth,
                   thread, snapshot, stepVars, logVars>>

\* One Ok(chunk) of the LLM stream: accumulate, flush if it is time
RecvChunk ==
    /\ TaskStep("chunks")
    /\ MayChunk(depth, nchunks)
    /\ \E chunk \in Chunks(depth, nchunks + 1), fl \in FlushChoices(depth) :
       /\ Continues(buffer, chunk)
       /\ \E b \in Accumulate(buffer, chunk) :
         \E order \in Orders(b.tool_calls) :
          IF fl /\ has_changes(b)
          THEN IF flush_result(b, stream_tx) = "Ok"
               THEN /\ stream' = Send(stream, stream_tx, FlushMsg(b, order))
                    /\ buffer' = Flushed(b)
                    /\ UNCHANGED <<stream_tx, shutdown_rx, pc, ended>>
               ELSE /\ Finish("send_error", TRUE, stream, stream_tx)
                    /\ buffer' = b
          ELSE /\ stream' = stream
               /\ buffer' = b
               /\ UNCHANGED <<stream_tx, shutdown_rx, pc, ended>>
    /\ nchunks' = nchunks + 1
    /\ UNCHANGED <<tools, terminating_tool_names, state, current_thread, depth,
                   thread, snapshot, updated_thread, calls, results, logVars>>

\* One Err(e) of the LLM stream
ChunkError ==
    /\ TaskStep("chunks")
    /\ Finish("chunk_error", TRUE, stream, stream_tx)
    /\ UNCHANGED <<tools, terminating_tool_names, state, current_thread, depth,
                   thread, snapshot, stepVars, logVars>>

\* The LLM stream ended: last flush, the Complete assistant message, and the
\* dispatch loop up to its first suspension (lines 799-932, 1030-1133)
StreamEnd ==
    /\ TaskStep("chunks")
    /\ MayEnd(depth, nchunks)
    /\ \E order \in Orders(buffer.tool_calls) :
       LET final == FinalMsg(buffer, order)
           strm1 == IF has_changes(buffer)
                    THEN Send(stream, stream_tx, FlushMsg(buffer, order))
                    ELSE stream
           strm2 == Send(strm1, stream_tx, final)
           cur == Push(current_thread, final)
       IN  IF has_changes(buffer) /\ flush_result(buffer, stream_tx) # "Ok"
           THEN /\ Finish("send_error", TRUE, stream, stream_tx)
                /\ UNCHANGED <<current_thread, depth, thread, snapshot,
                               updated_thread, calls, results, dispatched, appended>>
           ELSE AfterDispatch(Dispatch(final.tool_calls, strm2, cur, <<>>, dispatched,
                                       Append(appended, final)),
                              cur.messages, state)
    /\ UNCHANGED <<tools, terminating_tool_names, state, buffer, nchunks,
                   llm_requests>>

\* executor.execute returned Ok: the Tool message, the termination check and
\* the rest of the dispatch loop (lines 933, 970-1029, 1066-1133)
ToolReturns ==
    /\ TaskStep("tool")
    /\ LET c == Head(calls)
           msg == ToolResultMsg(c)
           strm1 == Send(stream, stream_tx, msg)
           cur == Push(current_thread, msg)
           res == Append(results, msg)
           ex == MarkLast(dispatched, "ok")
           app == Append(appended, msg)
       IN  /\ state' = ToolEffect(c.name, state)
           /\ IF IsTerminating(c.name)
              THEN /\ Finish("terminated", FALSE, Send(strm1, stream_tx, DoneMsg),
                             stream_tx)
                   /\ current_thread' = cur
                   /\ results' = res
                   /\ dispatched' = ex
                   /\ appended' = app
                   /\ UNCHANGED <<calls, updated_thread, depth, thread, snapshot>>
              ELSE AfterDispatch(Dispatch(Tail(calls), strm1, cur, res, ex, app),
                                 updated_thread, ToolEffect(c.name, state))
    /\ UNCHANGED <<tools, terminating_tool_names, buffer, nchunks, llm_requests>>

\* executor.execute returned Err (lines 934-967)
ToolFails ==
    /\ TaskStep("tool")
    /\ dispatched' = MarkLast(dispatched, "err")
    /\ Finish("tool_error", TRUE, stream, stream_tx)
    /\ UNCHANGED <<tools, terminating_tool_names, state, current_thread, depth,
                   thread, snapshot, stepVars, llm_requests, appended>>

\* Mutant: the shutdown arm sends its notice but no Done
ShutdownArm_NoDone ==
    /\ pc \in {"spawned", "mode", "open", "chunks", "tool"}
    /\ shutdown_rx = "fired"
    /\ caller = "spawned" => lead < MaxLead
    /\ stream' = Send(stream, stream_tx, ShutdownMsg)
    /\ dispatched' = IF pc = "tool" THEN MarkLast(dispatched, "cancelled") ELSE dispatched
    /\ pc' = "done"
    /\ shutdown_rx' = "none"
    /\ ended' = "shutdown"
    /\ polled' = FALSE
    /\ lead' = IF caller = "spawned" THEN lead + 1 ELSE lead
    /\ UNCHANGED <<sub, auxVars, agentVars, callerVars, depth, thread, snapshot, stepVars,
                   llm_requests, appended>>

\* Mutant: the shutdown arm lets the tool in flight finish first
ShutdownArm_AwaitsTool ==
    /\ pc \in {"spawned", "mode", "open", "chunks", "tool"}
    /\ shutdown_rx = "fired"
    /\ caller = "spawned" => lead < MaxLead
    /\ LET strm == IF pc = "tool"
                   THEN Send(stream, stream_tx, ToolResultMsg(Head(calls)))
                   ELSE stream
       IN  stream' = Send(Send(strm, stream_tx, ShutdownMsg), stream_tx, DoneMsg)
    /\ dispatched' = IF pc = "tool" THEN MarkLast(dispatched, "ok") ELSE dispatched
    /\ pc' = "done"
    /\ shutdown_rx' = "none"
    /\ ended' = "shutdown"
    /\ polled' = FALSE
    /\ lead' = IF caller = "spawned" THEN lead + 1 ELSE lead
    /\ UNCHANGED <<sub, auxVars, agentVars, callerVars, depth, thread, snapshot, stepVars,
                   llm_requests, appended>>

\* The second arm of select!: shutdown_rx.recv() completed; the process
\* future is dropped where it was suspended (lines 502-530)
ShutdownArm ==
    /\ pc \in {"spawned", "mode", "open", "chunks", "tool"}
    /\ shutdown_rx = "fired"
    /\ caller = "spawned" => lead < MaxLead
    /\ stream' = Send(Send(stream, stream_tx, ShutdownMsg), stream_tx, DoneMsg)
    /\ dispatched' = IF pc = "tool" THEN MarkLast(dispatched, "cancelled") ELSE dispatched
    /\ pc' = "done"
    /\ shutdown_rx' = "none"
    /\ ended' = "shutdown"
    /\ polled' = FALSE
    /\ lead' = IF caller = "spawned" THEN lead + 1 ELSE lead
    /\ UNCHANGED <<sub, auxVars, agentVars, callerVars, depth, thread, snapshot, stepVars,
                   llm_requests, appended>>

Next ==
    \/ Close
    \/ StartRun
    \/ Subscribe
    \/ Shutdown
    \/ BeginRun
    \/ ModeProviderFails
    \/ ToolLoaderFails
    \/ ApplyMode
    \/ OpenStream
    \/ OpenStreamFails
    \/ RecvChunk
    \/ ChunkError
    \/ StreamEnd
    \/ ToolReturns
    \/ ToolFails
    \/ ShutdownArm

Spec == Init /\ [][Next]_vars

\* --------------------------------------------------- BusterMultiAgent::run
\* The threads BusterMultiAgent::run is given: without a User message, with
\* one, with two
RunThreads ==
    {<<DeveloperMsg(<<"be brief">>)>>,
     <<UserMsg(<<"weather?">>)>>,
     <<UserMsg(<<"weather?">>), DeveloperMsg(<<"be brief">>), UserMsg(<<"metrics?">>)>>}

\* Mutant: the first User message of the thread is taken
get_latest_user_message_First(th) ==
    LET users == SelectSeq(th, LAMBDA msg : msg.type = "user")
    IN  IF users = <<>> THEN <<>> ELSE <<users[1].content>>

\* get_latest_user_message: the content of the last User message, as an
\* Option (<<>> is None, <<c>> is Some(c))
get_latest_user_message(th) ==
    LET users == SelectSeq(th, LAMBDA msg : msg.type = "user")
    IN  IF users = <<>> THEN <<>> ELSE <<users[Len(users)].content>>

\* Value::String(text): the store keeps the text (here texts of one piece)
JsonString(c) == c[1]

\* What run() stamps under "user_prompt" for the thread th
UserPrompt(th) ==
    IF get_latest_user_message(th) = <<>> THEN "null"
    ELSE JsonString(get_latest_user_message(th)[1])

\* BusterMultiAgent::run up to the spawn in process_thread_streaming: the
\* prompt is stamped, then the task is spawned
Run ==
    /\ pc = "idle"
    /\ caller = "idle"
    /\ \E th \in RunThreads :
        /\ thread' = th
        /\ state' = insert(state, "user_prompt", UserPrompt(th))
    /\ shutdown_rx' = "empty"
    /\ pc' = "spawned"
    /\ caller' = "spawned"
    /\ UNCHANGED <<sub, auxVars, tools, terminating_tool_names, current_thread,
                   stream_tx, stream, rx_from, lead, polled, depth, snapshot,
                   stepVars, ended, logVars>>

\* Runs started by BusterMultiAgent::run are followed for their first step
FirstStep == depth' <= 0 /\ nchunks' <= 1

NextRun ==
    \/ Run
    \/ (Close /\ FirstStep)
    \/ (Subscribe /\ FirstStep)
    \/ (Shutdown /\ FirstStep)
    \/ (BeginRun /\ FirstStep)
    \/ (ModeProviderFails /\ FirstStep)
    \/ (ToolLoaderFails /\ FirstStep)
    \/ (ApplyMode /\ FirstStep)
    \/ (OpenStream /\ FirstStep)
    \/ (OpenStreamFails /\ FirstStep)
    \/ (RecvChunk /\ FirstStep)
    \/ (ChunkError /\ FirstStep)
    \/ (StreamEnd /\ FirstStep)
    \/ (ToolReturns /\ FirstStep)
    \/ (ToolFails /\ FirstStep)
    \/ (ShutdownArm /\ FirstStep)

\* The agent run by BusterMultiAgent::run
SpecRun == Init /\ [][NextRun]_vars

\* ------------------------------------------------------- process_thread
\* process_thread calls process_thread_streaming (StartRun, Subscribe) and
\* then loops on rx.recv(). The receiver yields the events sent after it
\* subscribed; once every sender is gone and nothing is left it yields Err.
collectFrame == <<agentVars, stream, runVars_NoAux, sub, fed, last_op, added,
                  shutdown_err, lock_wait>>

\* `final_message.ok_or_else(..)` after the loop
AfterLoop(final) == IF final = <<>> THEN "no_message" ELSE "ok"

\* One rx.recv().await of the loop and the match on what it yields
PtRecv ==
    /\ caller = "subscribed"
    /\ pt.returned = "no"
    /\ LET i == rx_from + pt.taken + 1 IN
       IF i <= Len(stream)
       THEN pt' = CASE stream[i].type = "done" ->
                         [pt EXCEPT !.returned = AfterLoop(pt.final_message)]
                    [] stream[i].type = "err" -> [pt EXCEPT !.returned = "err"]
                    [] OTHER -> [pt EXCEPT !.taken = @ + 1,
                                           !.final_message = <<stream[i]>>]
       ELSE /\ ~stream_tx
            /\ pt' = [pt EXCEPT !.returned = AfterLoop(pt.final_message)]
    /\ UNCHANGED collectFrame

\* `self.process_thread_streaming(thread).await?` returned Err
PtStreamingFailed ==
    /\ caller = "failed"
    /\ pt.returned = "no"
    /\ pt' = [pt EXCEPT !.returned = "streaming_err"]
    /\ UNCHANGED collectFrame

NextCollect ==
    \/ PtRecv
    \/ PtStreamingFailed
    \/ (Close /\ FirstStep)
    \/ (StartRun /\ FirstStep)
    \/ (Subscribe /\ FirstStep)
    \/ (Shutdown /\ FirstStep)
    \/ (BeginRun /\ FirstStep)
    \/ (ModeProviderFails /\ FirstStep)
    \/ (ToolLoaderFails /\ FirstStep)
    \/ (ApplyMode /\ FirstStep)
    \/ (OpenStream /\ FirstStep)
    \/ (OpenStreamFails /\ FirstStep)
    \/ (RecvChunk /\ FirstStep)
    \/ (ChunkError /\ FirstStep)
    \/ (StreamEnd /\ FirstStep)
    \/ (ToolReturns /\ FirstStep)
    \/ (ToolFails /\ FirstStep)
    \/ (ShutdownArm /\ FirstStep)

\* A run collected by process_thread
SpecCollect == Init /\ [][NextCollect]_vars

\* The caller's future is polled: it subscribes and receives what is there
SpecCollectFair ==
    /\ SpecCollect
    /\ WF_vars(Subscribe /\ FirstStep)
    /\ WF_vars(PtRecv)
    /\ WF_vars(PtStreamingFailed)

\* ------------------------------------------------------- tracing enabled
\* With a trace (BRAINTRUST_CLIENT is set) the dispatch loop asks for a child
\* span at each registered tool call, before the arguments are parsed:
\* `trace.add_child_span(..).await?`. r is the run of the dispatch loop that
\* reached that call; the failure is returned by process_thread_with_depth.
TraceFailure(r, upd) ==
    /\ r.kind \in {"exec", "parse_err"}
    /\ calls' = r.calls
    /\ results' = r.results
    /\ updated_thread' = upd
    /\ dispatched' = SubSeq(r.dispatched, 1, Len(r.dispatched) - 1)
    /\ appended' = r.appended
    /\ current_thread' = r.current
    /\ Finish("trace_error", TRUE, r.stream, stream_tx)
    /\ UNCHANGED <<depth, thread, snapshot>>

\* add_child_span returned Err: at the first registered tool call of the
\* response, at the next one after a tool returned, or in the branch of a
\* response without tool calls ("Assistant Response")
AddChildSpanFails ==
    \/ /\ TaskStep("chunks")
       /\ MayEnd(depth, nchunks)
       /\ \E order \in Orders(buffer.tool_calls) :
          LET final == FinalMsg(buffer, order)
              strm1 == IF has_changes(buffer)
                       THEN Send(stream, stream_tx, FlushMsg(buffer, order))
                       ELSE stream
              strm2 == Send(strm1, stream_tx, final)
              cur == Push(current_thread, final)
          IN  IF final.tool_calls = <<>>
              THEN /\ Finish("trace_error", TRUE, strm2, stream_tx)
                   /\ current_thread' = cur
                   /\ appended' = Append(appended, final)
                   /\ UNCHANGED <<calls, results, updated_thread, dispatched, depth,
                                  thread, snapshot>>
              ELSE TraceFailure(Dispatch(final.tool_calls, strm2, cur, <<>>,
                                         dispatched, Append(appended, final)),
                                cur.messages)
       /\ UNCHANGED <<tools, terminating_tool_names, state, buffer, nchunks,
                      llm_requests>>
    \/ /\ TaskStep("tool")
       /\ ~IsTerminating(Head(calls).name)
       /\ LET c == Head(calls)
              msg == ToolResultMsg(c)
          IN  /\ state' = ToolEffect(c.name, state)
              /\ TraceFailure(Dispatch(Tail(calls), Send(stream, stream_tx, msg),
                                       Push(current_thread, msg), Append(results, msg),
                                       MarkLast(dispatched, "ok"), Append(appended, msg)),
                              updated_thread)
       /\ UNCHANGED <<tools, terminating_tool_names, buffer, nchunks, llm_requests>>

NextTrace ==
    \/ AddChildSpanFails
    \/ Next

\* The agent with tracing enabled
SpecTrace == Init /\ [][NextTrace]_vars

\* ------------------------------------------------ the accumulator on its own
\* The tool-call deltas of one response, fed to the buffer one at a time as
\* the loop over delta.tool_calls does; at most MaxDeltas of them.
MaxDeltas == 3
\* The LLM numbers the tool calls of a response (the `index` of a delta)
AccIndexes == {0, 1}
\* The id the LLM gives the call with index i
AccId(i) == CallId(0, i + 1)
\* An argument fragment without id, type and name
ArgsDelta(frag) == Delta(NoId, NONE, NONE, frag)
Fragments == {<<"{">>, <<"}">>}
\* What the LLM may send for the call with index i: a delta with the call's
\* id (with a name, or with a type only) or a bare argument fragment
AccDeltas(i) ==
    {Delta(AccId(i), "function", n, a) : n \in {WEATHER, METRICS}, a \in {<<>>, <<"{">>}}
        \cup {Delta(AccId(i), "custom", NONE, <<>>)}
        \cup {ArgsDelta(f) : f \in Fragments}

\* One pass of `for tool_call in tool_calls`: the key, entry().or_default(),
\* update_from_delta
FeedDelta ==
    /\ Len(fed) < MaxDeltas
    /\ \E i \in AccIndexes :
       \E d \in AccDeltas(i) :
       \E key \in DeltaKeys(buffer, d) :
          /\ buffer' = MergeDelta(buffer, d, key)
          /\ fed' = Append(fed, [index |-> i, delta |-> d, key |-> key])
    /\ UNCHANGED <<agentVars, stream, shutdown_rx, caller, rx_from, lead, pc, polled,
                   depth, thread, snapshot, nchunks, updated_thread, calls, results,
                   ended, logVars, sub, last_op, pt, added, shutdown_err, lock_wait>>

NextAcc == FeedDelta

\* The delta accumulator fed with the tool-call deltas of one response
SpecAcc == Init /\ [][NextAcc]_vars

\* ------------------------------------------------ the state store on its own
storeFrame == <<tools, terminating_tool_names, current_thread, stream_tx, stream,
                shutdown_rx, caller, rx_from, lead, pc, polled, depth, thread,
                snapshot, stepVars, ended, logVars, sub, fed, pt, added,
                shutdown_err, lock_wait>>

\* set_state_value(key, value)
StoreSet ==
    /\ \E k \in StateKeys, v \in StoreValues :
        /\ state' = insert(state, k, v)
        /\ last_op' = [op |-> "set", written |-> [x \in {k} |-> v]]
    /\ UNCHANGED storeFrame

\* update_state(|state| { state.insert(k1, v1); state.insert(k2, v2); })
StoreUpdate ==
    /\ \E k1 \in StateKeys, k2 \in StateKeys, v1 \in StoreValues, v2 \in StoreValues :
        /\ k1 # k2
        /\ state' = insert(insert(state, k1, v1), k2, v2)
        /\ last_op' = [op |-> "update",
                       written |-> [x \in {k1, k2} |-> IF x = k1 THEN v1 ELSE v2]]
    /\ UNCHANGED storeFrame

\* clear_state()
StoreClear ==
    /\ state' = [k \in StateKeys |-> "absent"]
    /\ last_op' = [op |-> "clear", written |-> [k \in {} |-> "absent"]]
    /\ UNCHANGED storeFrame

NextStore ==
    \/ StoreSet
    \/ StoreUpdate
    \/ StoreClear

\* The operations of the state store, in any order
SpecStore == Init /\ [][NextStore]_vars

\* --------------------------------------------- other holders of the agent
\* Runs observed together with other tasks are followed for the steps at
\* depth 0..MaxSharedDepth only.
MaxSharedDepth == 1
Shallow == depth' <= MaxSharedDepth

\* ------------------------------------------------------- add_tool
\* Names a caller registers itself: one no mode installs, one every mode does
AddedNames == {MAGIC, WEATHER}

\* agent.add_tool(name, tool, condition) on an agent that is not running
AddTool ==
    /\ pc = "idle"
    /\ caller = "idle"
    /\ \E name \in AddedNames :
         /\ name \notin tools
         /\ tools' = tools \cup {name}
         /\ added' = added \cup {name}
    /\ UNCHANGED <<terminating_tool_names, state, current_thread, stream_tx,
                   stream, runVars_NoAux, sub, fed, last_op, pt, shutdown_err, lock_wait>>

NextTools ==
    \/ AddTool
    \/ (Close /\ Shallow)
    \/ (StartRun /\ Shallow)
    \/ (Subscribe /\ Shallow)
    \/ (Shutdown /\ Shallow)
    \/ (BeginRun /\ Shallow)
    \/ (ModeProviderFails /\ Shallow)
    \/ (ToolLoaderFails /\ Shallow)
    \/ (ApplyMode /\ Shallow)
    \/ (OpenStream /\ Shallow)
    \/ (OpenStreamFails /\ Shallow)
    \/ (RecvChunk /\ Shallow)
    \/ (ChunkError /\ Shallow)
    \/ (StreamEnd /\ Shallow)
    \/ (ToolReturns /\ Shallow)
    \/ (ToolFails /\ Shallow)
    \/ (ShutdownArm /\ Shallow)

\* Runs of an agent that was given tools of its own before
SpecTools == Init /\ [][NextTools]_vars

NextRunOn ==
    \/ (Run /\ Shallow)
    \/ (Close /\ Shallow)
    \/ (Subscribe /\ Shallow)
    \/ (Shutdown /\ Shallow)
    \/ (BeginRun /\ Shallow)
    \/ (ModeProviderFails /\ Shallow)
    \/ (ToolLoaderFails /\ Shallow)
    \/ (ApplyMode /\ Shallow)
    \/ (OpenStream /\ Shallow)
    \/ (OpenStreamFails /\ Shallow)
    \/ (RecvChunk /\ Shallow)
    \/ (ChunkError /\ Shallow)
    \/ (StreamEnd /\ Shallow)
    \/ (ToolReturns /\ Shallow)
    \/ (ToolFails /\ Shallow)
    \/ (ShutdownArm /\ Shallow)

\* Runs started by BusterMultiAgent::run, followed beyond their first step
SpecRunOn == Init /\ [][NextRunOn]_vars

\* The values another task writes under "weather_enabled", at most once each
\* and in this order (as test_agent_disabled_tool does)
StateRank(v) == CASE v = "absent" -> 0 [] v = "false" -> 1 [] v = "true" -> 2

\* Agent::set_state_value called by another task that holds the agent (its
\* owner, a tool, a sub-agent sharing the state), at any moment of a run
SetStateValue ==
    /\ \E v \in {"false", "true"} :
        /\ StateRank(v) > StateRank(state["weather_enabled"])
        /\ state' = [state EXCEPT !["weather_enabled"] = v]
    /\ UNCHANGED <<sub, auxVars, tools, terminating_tool_names, current_thread, stream_tx,
                   stream, shutdown_rx, caller, rx_from, lead, pc, polled, depth,
                   thread, snapshot, stepVars, ended, logVars>>

NextState ==
    \/ SetStateValue
    \/ (Close /\ Shallow)
    \/ (StartRun /\ Shallow)
    \/ (Subscribe /\ Shallow)
    \/ (Shutdown /\ Shallow)
    \/ (BeginRun /\ Shallow)
    \/ (ModeProviderFails /\ Shallow)
    \/ (ToolLoaderFails /\ Shallow)
    \/ (ApplyMode /\ Shallow)
    \/ (OpenStream /\ Shallow)
    \/ (OpenStreamFails /\ Shallow)
    \/ (RecvChunk /\ Shallow)
    \/ (ChunkError /\ Shallow)
    \/ (StreamEnd /\ Shallow)
    \/ (ToolReturns /\ Shallow)
    \/ (ToolFails /\ Shallow)
    \/ (ShutdownArm /\ Shallow)

\* The agent and a task that writes its state
SpecState == Init /\ [][NextState]_vars

\* ------------------------------------------------ shutdown before a run
\* shutdown() on an agent that is not running: nothing listens
ShutdownUnheard ==
    /\ pc = "idle"
    /\ caller = "idle"
    /\ ~shutdown_err
    /\ shutdown_err' = (send_shutdown(shutdown_rx) = "Err")
    /\ UNCHANGED <<agentVars, stream, runVars_NoAux, sub, fed, last_op, pt, added,
                   lock_wait>>

NextShutdown ==
    \/ ShutdownUnheard
    \/ (Close /\ Shallow)
    \/ (StartRun /\ Shallow)
    \/ (Subscribe /\ Shallow)
    \/ (Shutdown /\ Shallow)
    \/ (BeginRun /\ Shallow)
    \/ (ModeProviderFails /\ Shallow)
    \/ (ToolLoaderFails /\ Shallow)
    \/ (ApplyMode /\ Shallow)
    \/ (OpenStream /\ Shallow)
    \/ (OpenStreamFails /\ Shallow)
    \/ (RecvChunk /\ Shallow)
    \/ (ChunkError /\ Shallow)
    \/ (StreamEnd /\ Shallow)
    \/ (ToolReturns /\ Shallow)
    \/ (ToolFails /\ Shallow)
    \/ (ShutdownArm /\ Shallow)

\* Runs of an agent that may have been shut down before
SpecShutdown == Init /\ [][NextShutdown]_vars

\* ------------------------------------------------------ the loop's locks
\* The read guards the loop's task holds while it awaits: `agent_tools` and
\* `terminating_names` across every execute of the dispatch loop, `tools`
\* and `state` across every get_schema of get_enabled_tools
ReadGuards(at) ==
    CASE at = "tool" -> {"tools", "terminating_tool_names"}
      [] at = "mode" -> {"tools", "state"}
      [] OTHER -> {}

\* lock.write().await: granted once no guard of the lock is out; the result
\* is the lock still waited for
write_lock(name, guards) == IF name \in guards THEN name ELSE "none"

\* The executing tool calls add_tool, add_tools or clear_tools on the agent
\* that dispatches it
ToolWritesRegistry ==
    /\ pc = "tool"
    /\ lock_wait = "none"
    /\ lock_wait' = write_lock("tools", ReadGuards(pc))
    /\ tools' = IF lock_wait' = "none" THEN clear_tools(tools) ELSE tools
    /\ UNCHANGED <<terminating_tool_names, state, current_thread, stream_tx, stream,
                   runVars_NoAux, sub, fed, last_op, pt, added, shutdown_err>>

\* A schema evaluated in get_enabled_tools calls set_state_value
SchemaWritesState ==
    /\ pc = "mode"
    /\ lock_wait = "none"
    /\ lock_wait' = write_lock("state", ReadGuards(pc))
    /\ state' = IF lock_wait' = "none"
                THEN insert(state, "weather_enabled", "true") ELSE state
    /\ UNCHANGED <<tools, terminating_tool_names, current_thread, stream_tx, stream,
                   runVars_NoAux, sub, fed, last_op, pt, added, shutdown_err>>

\* The loop's task goes on when the call it awaits has its lock
Unblocked == lock_wait = "none"

NextLocks ==
    \/ ToolWritesRegistry
    \/ SchemaWritesState
    \/ (Close /\ Shallow)
    \/ (StartRun /\ Shallow)
    \/ (Subscribe /\ Shallow)
    \/ (BeginRun /\ Shallow /\ Unblocked)
    \/ (ModeProviderFails /\ Shallow /\ Unblocked)
    \/ (ToolLoaderFails /\ Shallow /\ Unblocked)
    \/ (ApplyMode /\ Shallow /\ Unblocked)
    \/ (OpenStream /\ Shallow /\ Unblocked)
    \/ (OpenStreamFails /\ Shallow /\ Unblocked)
    \/ (RecvChunk /\ Shallow /\ Unblocked)
    \/ (ChunkError /\ Shallow /\ Unblocked)
    \/ (StreamEnd /\ Shallow /\ Unblocked)
    \/ (ToolReturns /\ Shallow /\ Unblocked)
    \/ (ToolFails /\ Shallow /\ Unblocked)

\* Runs whose tools and schemas call back into the agent
SpecLocks == Init /\ [][NextLocks]_vars

\* ------------------------------------------------- the derived agent's run
\* The derived agent's run is followed for SubSteps steps.
SubSteps == 1
\* The LLM numbers the derived agent's completions from SubBase + 1
SubBase == 50
\* The thread the derived agent is run on
SubThread == <<UserMsg(<<"subtask">>)>>
\* The configuration the derived agent's own mode provider returns
SubModeConfiguration ==
    [prompt |-> <<"sub">>, tools |-> {WEATHER}, terminating_tools |-> {WEATHER}]
\* The one chunk of the derived agent's LLM response at its step d
SubChunks(d) ==
    {ContentChunk(SubBase + d), ToolChunk(SubBase + d, 1, WEATHER, ARGS_OK)}

\* The derived agent hands ev to the sender it reaches (view v)
SubSend(v, ev) == [v EXCEPT !.stream = Send(@, v.stream_tx, ev)]
SubSent(v, log, ev) == IF v.stream_tx THEN Append(log, ev) ELSE log
SubPush(v, m) == [v EXCEPT !.current_thread = Push(@, m)]

\* Agent::from_existing(&agent, name, mode_provider)
FromExisting ==
    /\ ~sub.made
    /\ sub' = [sub EXCEPT !.made = TRUE, !.refs = from_existing, !.own = FreshFields]
    /\ UNCHANGED <<agentVars, stream, runVars>>

\* set_state_value through the derived agent
SubSetStateValue ==
    /\ sub.made
    /\ \E val \in {"false", "true"} :
        /\ StateRank(val) > StateRank(SubView.state["weather_enabled"])
        /\ SubCommit([SubView EXCEPT !.state["weather_enabled"] = val], sub)
    /\ UNCHANGED runVars

\* shutdown() through the derived agent: a send on the channel it reaches
SubShutdown ==
    /\ sub.made
    /\ shutdown_rx = "empty" \/ sub.shutdown_rx = "empty"
    /\ sub' = [sub EXCEPT !.shutdown_rx = IF @ = "empty" THEN "fired" ELSE @]
    /\ shutdown_rx' = IF sub.refs.shutdown_tx = "shared" /\ shutdown_rx = "empty"
                      THEN "fired" ELSE shutdown_rx
    /\ UNCHANGED <<agentVars, stream, caller, rx_from, lead, pc, polled, depth,
                   thread, snapshot, stepVars, ended, logVars, auxVars>>

\* The derived agent enters its step d on the thread th: the thread is
\* installed as the current thread
SubEnter(v, local, d, th) ==
    SubCommit([v EXCEPT !.current_thread = [some |-> TRUE, messages |-> th]],
              [local EXCEPT !.pc = "mode", !.depth = d])

\* After the derived agent's dispatch loop: the next step, if followed
SubRecurse(v, local) ==
    IF local.depth + 1 < SubSteps
    THEN SubEnter(v, local, local.depth + 1, local.updated_thread \o local.results)
    ELSE SubCommit(v, [local EXCEPT !.pc = "rest"])

\* process_thread_streaming on the derived agent, to the step's mode call
SubStartRun ==
    /\ sub.made
    /\ sub.pc = "idle"
    /\ SubEnter(SubView, [sub EXCEPT !.shutdown_rx = "empty"], 0, SubThread)
    /\ UNCHANGED runVars

\* The derived agent applies its mode and opens the LLM stream
SubApplyMode ==
    /\ sub.pc = "mode"
    /\ SubCommit([SubView EXCEPT
                     !.tools = SubModeConfiguration.tools,
                     !.terminating_tool_names = SubModeConfiguration.terminating_tools],
                 [sub EXCEPT !.pc = "chunks", !.buffer = NewBuffer, !.nchunks = 0])
    /\ UNCHANGED runVars

\* One chunk of the derived agent's LLM stream
SubRecvChunk ==
    /\ sub.pc = "chunks"
    /\ sub.nchunks = 0
    /\ \E chunk \in SubChunks(sub.depth), fl \in BOOLEAN :
       \E b \in Accumulate(sub.buffer, chunk) :
       \E order \in Orders(b.tool_calls) :
          IF fl /\ has_changes(b)
          THEN SubCommit(SubSend(SubView, FlushMsg(b, order)),
                         [sub EXCEPT !.buffer = Flushed(b),
                                     !.nchunks = 1,
                                     !.sent = SubSent(SubView, @, FlushMsg(b, order))])
          ELSE SubCommit(SubView, [sub EXCEPT !.buffer = b, !.nchunks = 1])
    /\ UNCHANGED runVars

\* The derived agent's LLM stream ended: last flush, Complete message, and
\* its dispatch loop up to the execute of its one tool call
SubStreamEnd ==
    /\ sub.pc = "chunks"
    /\ sub.nchunks = 1
    /\ \E order \in Orders(sub.buffer.tool_calls) :
       LET final == FinalMsg(sub.buffer, order)
           flush == FlushMsg(sub.buffer, order)
           v1 == IF has_changes(sub.buffer) THEN SubSend(SubView, flush) ELSE SubView
           log1 == IF has_changes(sub.buffer) THEN SubSent(SubView, sub.sent, flush)
                   ELSE sub.sent
           v2 == SubPush(SubSend(v1, final), final)
           log2 == SubSent(SubView, log1, final)
           local == [sub EXCEPT !.sent = log2, !.calls = final.tool_calls,
                                !.updated_thread = v2.current_thread.messages,
                                !.results = <<>>]
       IN  IF final.tool_calls = <<>>
           THEN SubRecurse(v2, local)
           ELSE IF Head(final.tool_calls).name \in v2.tools
           THEN SubCommit(v2, [local EXCEPT !.pc = "tool"])
           ELSE LET err == UnknownToolMsg(Head(final.tool_calls)) IN
                SubRecurse(SubPush(SubSend(v2, err), err),
                           [local EXCEPT !.sent = SubSent(SubView, @, err)])
    /\ UNCHANGED runVars

\* The derived agent's tool returned Ok
SubToolReturns ==
    /\ sub.pc = "tool"
    /\ LET c == Head(sub.calls)
           msg == ToolResultMsg(c)
           v1 == SubPush(SubSend(SubView, msg), msg)
           local == [sub EXCEPT !.sent = SubSent(SubView, @, msg),
                                !.results = Append(@, msg)]
       IN  IF c.name \in SubView.terminating_tool_names
           THEN SubCommit(SubSend(SubSend(v1, DoneMsg), DoneMsg),
                          [local EXCEPT !.pc = "done", !.ended = "terminated",
                                        !.shutdown_rx = "none",
                                        !.sent = SubSent(SubView,
                                                     SubSent(SubView, @, DoneMsg), DoneMsg)])
           ELSE SubRecurse(v1, local)
    /\ UNCHANGED runVars

\* The shutdown arm of the derived agent's task
SubShutdownArm ==
    /\ sub.pc \in {"mode", "chunks", "tool"}
    /\ sub.shutdown_rx = "fired"
    /\ SubCommit(SubSend(SubSend(SubView, ShutdownMsg), DoneMsg),
                 [sub EXCEPT !.pc = "done", !.ended = "shutdown", !.shutdown_rx = "none",
                             !.sent = SubSent(SubView,
                                          SubSent(SubView, @, ShutdownMsg), DoneMsg)])
    /\ UNCHANGED runVars

\* Beside the derived agent, the agent's own run is followed for one step
\* of one chunk.
Narrow == depth' <= 0 /\ nchunks' <= 1

NextSub ==
    \/ FromExisting
    \/ SubSetStateValue
    \/ SubShutdown
    \/ SubStartRun
    \/ SubApplyMode
    \/ SubRecvChunk
    \/ SubStreamEnd
    \/ SubToolReturns
    \/ SubShutdownArm
    \/ (StartRun /\ Narrow)
    \/ (Subscribe /\ Narrow)
    \/ (Shutdown /\ Narrow)
    \/ (BeginRun /\ Narrow)
    \/ (ApplyMode /\ Narrow)
    \/ (OpenStream /\ Narrow)
    \/ (RecvChunk /\ Narrow)
    \/ (StreamEnd /\ Narrow)
    \/ (ToolReturns /\ Narrow)
    \/ (ShutdownArm /\ Narrow)

\* The agent and an agent derived from it, both running
SpecSub == Init /\ [][NextSub]_vars

\* ------------------------------------- the derived agent up to its depth cap
\* A whole step of the derived agent whose LLM answers with text only: the
\* mode is applied, the Complete message is sent and pushed, and the next
\* step is entered on the extended thread
SubAnswer ==
    /\ sub.pc = "mode"
    /\ ~DepthExceeded(sub.depth)
    /\ \E b \in Accumulate(NewBuffer, ContentChunk(SubBase + sub.depth)) :
       LET final == FinalMsg(b, <<>>)
           v0 == [SubView EXCEPT
                     !.tools = SubModeConfiguration.tools,
                     !.terminating_tool_names = SubModeConfiguration.terminating_tools]
           v1 == SubPush(SubSend(v0, final), final)
       IN  SubEnter(v1, [sub EXCEPT !.sent = SubSent(SubView, @, final),
                                    !.updated_thread = v1.current_thread.messages,
                                    !.calls = <<>>, !.results = <<>>],
                    sub.depth + 1, v1.current_thread.messages)
    /\ UNCHANGED runVars

\* The derived agent's step at recursion_depth >= 15: the apology is sent,
\* close() clears the sender it reaches, and the Done of its task finds none
SubDepthCap ==
    /\ sub.pc = "mode"
    /\ DepthExceeded(sub.depth)
    /\ LET v1 == SubSend(SubView, CapMsg)
           v2 == [v1 EXCEPT !.stream_tx = FALSE]
       IN  SubCommit(SubSend(v2, DoneMsg),
                     [sub EXCEPT !.pc = "done", !.ended = "cap", !.shutdown_rx = "none",
                                 !.sent = SubSent(v2, SubSent(SubView, @, CapMsg),
                                                  DoneMsg)])
    /\ UNCHANGED runVars

\* The derived agent is run by a tool of the agent: it runs while that tool
\* executes, and the tool returns once the derived agent's task is over
InTool == pc = "tool"
Awaited == sub.pc \in {"idle", "done"}

NextSubCap ==
    \/ FromExisting
    \/ (SubStartRun /\ InTool)
    \/ (SubAnswer /\ InTool)
    \/ (SubDepthCap /\ InTool)
    \/ (StartRun /\ Narrow /\ Awaited)
    \/ (Subscribe /\ Narrow)
    \/ (BeginRun /\ Narrow /\ Awaited)
    \/ (ApplyMode /\ Narrow /\ Awaited)
    \/ (OpenStream /\ Narrow /\ Awaited)
    \/ (RecvChunk /\ Narrow /\ Awaited)
    \/ (StreamEnd /\ Narrow /\ Awaited)
    \/ (ToolReturns /\ Narrow /\ Awaited)

\* The agent with a tool that runs a derived agent up to its depth cap
SpecSubCap == Init /\ [][NextSubCap]_vars

\* ------------------------------------------------------------ observations
Last(q) == q[Len(q)]

\* The stream ends with the two events a, b
EndsWith(a, b) ==
    /\ Len(stream) >= 2
    /\ stream[Len(stream) - 1] = a
    /\ stream[Len(stream)] = b

\* Complete Tool messages of q that answer the call id
CountTool(q, id) ==
    Cardinality({i \in DOMAIN q : /\ q[i].type = "tool"
                                  /\ q[i].progress = "Complete"
                                  /\ q[i].call_id = id})

\* An event of a step of the loop (not a canned message, Err or Done)
LoopEvent(ev) ==
    \/ ev.type = "tool"
    \/ ev.type = "assistant" /\ ev.id >= 0
\* The step an event belongs to, by the ids the LLM assigned; the Complete
\* message of a response without chunks has no id and stands alone
StepKnown(ev) == ev.type = "tool" \/ ev.id > 0
StepOf(ev) == IF ev.type = "assistant" THEN ev.id - 1 ELSE (ev.call_id \div 10) - 1
SameStep(a, b) == StepKnown(a) /\ StepKnown(b) /\ StepOf(a) = StepOf(b)
\* 1: InProgress assistant, 2: Complete assistant, 3: Tool message
PhaseOf(ev) ==
    IF ev.type = "tool" THEN 3 ELSE IF ev.progress = "Complete" THEN 2 ELSE 1

\* A subscriber that attached before the task sent anything
AttachedFromStart == caller = "subscribed" /\ rx_from = 0

\* How a run ends when process_thread_with_depth returns Err
ErrorEnds == {"mode_error", "loader_error", "open_error", "chunk_error",
              "parse_error", "tool_error"}

CountType(q, t) == Cardinality({i \in DOMAIN q : q[i].type = t})

\* The text a begins the text b
TextPrefix(a, b) == Len(a) <= Len(b) /\ SubSeq(b, 1, Len(a)) = a

\* An assistant message of a step, as a snapshot or as the Complete message
Snapshot(ev) == ev.type = "assistant" /\ ev.id >= 0 /\ ev.progress = "InProgress"
CompleteMsg(ev) == ev.type = "assistant" /\ ev.id >= 0 /\ ev.progress = "Complete"

\* The events q[i..j-1] are all snapshots: q[i] is a snapshot of the step
\* whose assistant message q[j] is
SnapshotOf(q, i, j) == i < j /\ \A n \in i..(j - 1) : Snapshot(q[n])

\* The call c of a snapshot is in the message m, with its arguments grown
CallKept(c, m) ==
    \E n \in DOMAIN m.tool_calls :
        /\ m.tool_calls[n].id = c.id
        /\ m.tool_calls[n].name = c.name
        /\ TextPrefix(c.arguments, m.tool_calls[n].arguments)

\* The store st holds under "user_prompt" the content of the last User
\* message of the messages ms, or Null when they have none
Stamped(st, ms) ==
    /\ (\A i \in DOMAIN ms : ms[i].type # "user")
          => get_state_value(st, "user_prompt") = "null"
    /\ \A i \in DOMAIN ms :
          (ms[i].type = "user" /\ \A j \in (i + 1)..Len(ms) : ms[j].type # "user")
              => get_state_value(st, "user_prompt") = JsonString(ms[i].content)

\* The deltas fed so far that were filed under the key
FiledUnder(key) == SelectSeq(fed, LAMBDA e : e.key = key)

\* The argument fragments of the fed deltas es, joined in their order
RECURSIVE JoinArguments(_)
JoinArguments(es) ==
    IF es = <<>> THEN <<>> ELSE Head(es).delta.arguments \o JoinArguments(Tail(es))

\* The first name, the first type that the fed deltas es supplied
FirstName(es) ==
    LET named == SelectSeq(es, LAMBDA e : e.delta.name # NONE)
    IN  IF named = <<>> THEN NONE ELSE named[1].delta.name
FirstType(es) ==
    LET typed == SelectSeq(es, LAMBDA e : e.delta.call_type # NONE)
    IN  IF typed = <<>> THEN NONE ELSE typed[1].delta.call_type

\* The response is streamed as the LLM API does: of each call the first delta
\* carries the id, the later ones do not
FirstDeltaHasId ==
    \A n \in DOMAIN fed :
        (fed[n].delta.id # NoId) <=> (\A m \in 1..(n - 1) : fed[m].index # fed[n].index)

\* The ToolCalls the final message is given for the buffer b
FinalCalls(b) == {into_tool_call(p) : p \in b.tool_calls}

\* An event of a step of the derived agent, by the ids its LLM assigned
SubEvent(ev) == LoopEvent(ev) /\ StepKnown(ev) /\ StepOf(ev) >= SubBase
\* An event of a step of the agent itself
ParentEvent(ev) == LoopEvent(ev) /\ ~SubEvent(ev)

\* The events of the steps in q are ordered step by step: InProgress
\* snapshots, one Complete assistant message, the Tool messages
StepOrdered(q) ==
    /\ q # <<>> => PhaseOf(q[1]) <= 2
    /\ \A i \in 1..(Len(q) - 1) :
        LET a == q[i]
            b == q[i + 1]
        IN  IF SameStep(a, b)
            THEN /\ PhaseOf(a) <= PhaseOf(b)
                 /\ ~(PhaseOf(a) = 2 /\ PhaseOf(b) = 2)
                 /\ PhaseOf(b) = 3 => PhaseOf(a) >= 2
            ELSE /\ (StepKnown(a) /\ StepKnown(b)) => StepOf(a) < StepOf(b)
                 /\ PhaseOf(a) >= 2
                 /\ PhaseOf(b) <= 2

\* ------------------------------------------------------------------ claims
\* C1: a subscriber that stays attached observes Done as the last event of
\* the run, whichever way the run ends. Stated for a finished run.
C1_DoneIsLast ==
    (pc = "done" /\ AttachedFromStart) => (stream # <<>> /\ Last(stream) = DoneMsg)

\* C2: when every step executes an enabled non-terminating tool, the run
\* reaches the depth cap and the stream ends with the capacity message
\* followed by Done (Done is sent before close() clears the sender).
C2_CapThenDone ==
    (/\ ended = "cap"
     /\ AttachedFromStart
     /\ \A i \in DOMAIN dispatched : dispatched[i].status = "ok"
     /\ \A d \in 0..(MaxDepth - 1) : \E i \in DOMAIN dispatched : dispatched[i].depth = d)
    => EndsWith(CapMsg, DoneMsg)

\* C3: the depth of a step never exceeds 15; no step at depth >= 15 applies a
\* mode, calls the LLM or dispatches a tool; a run issues at most 15 requests.
C3_DepthBounded ==
    /\ depth <= MaxDepth
    /\ pc \in {"mode", "open", "chunks", "tool"} => depth < MaxDepth
    /\ Len(llm_requests) <= MaxDepth
    /\ \A i \in DOMAIN llm_requests : llm_requests[i].depth < MaxDepth
    /\ \A i \in DOMAIN dispatched : dispatched[i].depth < MaxDepth

C3_Witness == ended = "cap" /\ depth = MaxDepth /\ Len(llm_requests) = MaxDepth

\* C4: once a registered tool named in the step's terminating list has
\* executed successfully, it is the last tool call taken, the run is over
\* and no step at the next depth was started.
C4_TerminatingStops ==
    \A i \in DOMAIN dispatched :
        (dispatched[i].status = "ok" /\ dispatched[i].name \in dispatched[i].terminating)
        => /\ i = Len(dispatched)
           /\ pc = "done"
           /\ depth = dispatched[i].depth
           /\ \A j \in DOMAIN llm_requests : llm_requests[j].depth <= dispatched[i].depth

\* A step with two terminating calls ended after the first of them
C4_Witness ==
    /\ ended = "terminated"
    /\ Len(calls) >= 2
    /\ Head(calls).id = Last(dispatched).id
    /\ calls[2].name \in terminating_tool_names

C6_UnknownToolReachesLlm ==
    \A i \in DOMAIN dispatched, j \in DOMAIN llm_requests :
        (dispatched[i].status = "unknown" /\ llm_requests[j].depth = dispatched[i].depth + 1)
        => \E k \in DOMAIN llm_requests[j].messages :
               /\ llm_requests[j].messages[k].type = "tool"
               /\ llm_requests[j].messages[k].call_id = dispatched[i].id

\* C7: on the stream each step's events come as InProgress assistant
\* snapshots, then exactly one Complete assistant message, then the step's
\* Tool messages, and only then events of a later step; canned messages, Err
\* and Done come after all of them, and nothing but Done follows Done.
C7_StepOrder ==
    /\ stream # <<>> /\ LoopEvent(stream[1]) => PhaseOf(stream[1]) <= 2
    /\ \A i \in 1..(Len(stream) - 1) :
        LET a == stream[i]
            b == stream[i + 1]
        IN  /\ a.type = "done" => b.type = "done"
            /\ ~LoopEvent(a) => ~LoopEvent(b)
            /\ (LoopEvent(a) /\ LoopEvent(b)) =>
                 IF SameStep(a, b)
                 THEN /\ PhaseOf(a) <= PhaseOf(b)
                      /\ ~(PhaseOf(a) = 2 /\ PhaseOf(b) = 2)
                      /\ PhaseOf(b) = 3 => PhaseOf(a) >= 2
                 ELSE /\ (StepKnown(a) /\ StepKnown(b)) => StepOf(a) < StepOf(b)
                      /\ PhaseOf(a) >= 2
                      /\ PhaseOf(b) <= 2
            /\ (LoopEvent(a) /\ ~LoopEvent(b) /\ b.type = "done") => PhaseOf(a) >= 2

C7_Witness ==
    /\ pc = "done"
    /\ stream # <<>>
    /\ Last(stream) = DoneMsg
    /\ \E i \in DOMAIN stream :
        /\ i + 4 <= Len(stream)
        /\ LoopEvent(stream[i]) /\ PhaseOf(stream[i]) = 1
        /\ LoopEvent(stream[i + 1]) /\ PhaseOf(stream[i + 1]) = 1
        /\ LoopEvent(stream[i + 2]) /\ PhaseOf(stream[i + 2]) = 2
        /\ LoopEvent(stream[i + 3]) /\ PhaseOf(stream[i + 3]) = 3
        /\ SameStep(stream[i], stream[i + 3])
        /\ LoopEvent(stream[i + 4]) /\ StepOf(stream[i + 4]) = StepOf(stream[i]) + 1

\* C8: the tool calls of one step are executed in the order in which the LLM
\* stream introduced them (call ids grow with the arrival position).
C8_ArrivalOrder ==
    \A i, j \in DOMAIN dispatched :
        (AttachedFromStart /\ i < j /\ dispatched[i].depth = dispatched[j].depth)
        => dispatched[i].id < dispatched[j].id

C10_ToolRunsToCompletion ==
    (AttachedFromStart /\ ended = "shutdown") => \A i \in DOMAIN dispatched : dispatched[i].status \in
                              {"ok", "err", "unknown", "parse_err"}

\* C10 amended: when the shutdown arm runs while a tool's execute is in
\* flight, the execution is dropped: it never completes, no Tool message for
\* the call is sent or appended, and the notice and Done follow at once.
C10_InFlightToolDropped ==
    [][(pc = "tool" /\ ended' = "shutdown")
       => /\ Last(dispatched').status \notin {"ok", "err"}
          /\ CountTool(stream', Head(calls).id) = 0
          /\ CountTool(appended', Head(calls).id) = 0
          /\ stream' = Send(Send(stream, stream_tx, ShutdownMsg), stream_tx, DoneMsg)]_vars

C10_Witness ==
    /\ ended = "shutdown"
    /\ stream_tx
    /\ dispatched # <<>>
    /\ Last(dispatched).status = "cancelled"

\* C11: when a step fails (mode provider, tool loader, stream open, chunk
\* transport, argument parse or tool executor), the stream, if its sender is
\* present, receives exactly one Err event, followed by Done, and from then on
\* the run starts no step, request or tool execution and sends nothing more.
C11_ErrThenDone ==
    /\ [](ended \in ErrorEnds
          => /\ pc = "done"
             /\ CountType(stream, "err") = IF stream_tx THEN 1 ELSE 0
             /\ stream_tx => EndsWith(ErrEvent, DoneMsg))
    /\ [][(ended \in ErrorEnds)
          => UNCHANGED <<pc, depth, llm_requests, dispatched, appended, stream>>]_vars

\* A tool executor failed in a step after the first, with a subscriber
C11_Witness ==
    /\ ended = "tool_error"
    /\ depth >= 1
    /\ AttachedFromStart
    /\ EndsWith(ErrEvent, DoneMsg)

\* C12: in every LLM request a registered tool whose enablement condition is
\* false on the state get_enabled_tools read for that step is not among the
\* attached tools, and a registered tool without condition, or whose
\* condition is true on that state, is among them.
C12_EnabledToolsOffered ==
    \A i \in DOMAIN llm_requests :
        LET r == llm_requests[i] IN
        /\ r.tools \subseteq r.registry
        /\ WEATHER \in r.tools
              <=> (WEATHER \in r.registry /\ r.state["weather_enabled"] = "true")
        /\ \A name \in {METRICS, DONE_TOOL} : name \in r.tools <=> name \in r.registry

\* One run offered get_weather in its second request and not in its first
C12_Witness ==
    /\ Len(llm_requests) >= 2
    /\ WEATHER \in llm_requests[1].registry
    /\ WEATHER \notin llm_requests[1].tools
    /\ llm_requests[1].state["weather_enabled"] = "false"
    /\ WEATHER \in llm_requests[2].tools
    /\ METRICS \in llm_requests[1].tools

\* C13: each step calls the mode provider once (one request per depth), and
\* the state the enablement conditions were evaluated on is the snapshot
\* the mode provider was given, also when another task writes the state.
C13_OneSnapshotPerStep ==
    /\ \A i, j \in DOMAIN llm_requests :
          i < j => llm_requests[i].depth < llm_requests[j].depth
    /\ \A i \in DOMAIN llm_requests :
          llm_requests[i].state = llm_requests[i].snapshot

\* C14: a state write made by a tool during step d (update_metrics setting
\* review_needed) is in the snapshot the mode provider receives at step d+1,
\* which therefore selects the review mode.
C14_ToolWriteSeenByNextStep ==
    \A i \in DOMAIN dispatched, j \in DOMAIN llm_requests :
        (/\ dispatched[i].name = METRICS
         /\ dispatched[i].status = "ok"
         /\ llm_requests[j].depth = dispatched[i].depth + 1)
        => /\ llm_requests[j].snapshot["review_needed"] = "true"
           /\ llm_requests[j].messages[1] = DeveloperMsg(<<"review">>)
           /\ llm_requests[j].registry = ModeConfiguration(llm_requests[j].snapshot).tools

C14_Witness ==
    \E i \in DOMAIN dispatched, j \in DOMAIN llm_requests :
        /\ dispatched[i].name = METRICS
        /\ dispatched[i].status = "ok"
        /\ llm_requests[j].depth = dispatched[i].depth + 1
        /\ llm_requests[1].snapshot["review_needed"] = "absent"

\* C15: an agent made by from_existing starts with an empty tool registry and
\* an empty terminating list; from then on it reaches the same state, current
\* thread and stream sender as its parent, a shutdown sent through either
\* fires the receivers of both, and a change of one agent's registry or
\* terminating list leaves the other agent's unchanged.
C15_DerivedAgentSharing ==
    /\ [](sub.made => /\ SubView.state = state
                      /\ SubView.current_thread = current_thread
                      /\ SubView.stream_tx = stream_tx
                      /\ SubView.stream = stream)
    /\ [][(~sub.made /\ sub'.made)
            => (SubView'.tools = {} /\ SubView'.terminating_tool_names = {})]_vars
    /\ [][(sub.made /\ <<tools, terminating_tool_names>>' # <<tools, terminating_tool_names>>)
            => /\ SubView'.tools = SubView.tools
               /\ SubView'.terminating_tool_names = SubView.terminating_tool_names]_vars
    /\ [][(sub.made /\ <<SubView.tools, SubView.terminating_tool_names>>'
                          # <<SubView.tools, SubView.terminating_tool_names>>)
            => UNCHANGED <<tools, terminating_tool_names>>]_vars
    /\ [][(sub.shutdown_rx = "empty" /\ shutdown_rx = "empty")
            => (shutdown_rx' = "fired" <=> sub'.shutdown_rx = "fired")]_vars

C15_Witness ==
    /\ sub.made
    /\ SubView.tools = SubModeConfiguration.tools
    /\ tools = ModeConfiguration(state).tools
    /\ SubView.terminating_tool_names # terminating_tool_names
    /\ state["weather_enabled"] = "true"
    /\ sub.ended = "shutdown"
    /\ ended = "shutdown"
    /\ \E i \in DOMAIN current_thread.messages :
          SubEvent(current_thread.messages[i])

\* C16: what a derived agent emits goes, in the order it was emitted, to the
\* stream the parent's subscribers read, and in the interleaved stream the
\* events of each agent taken alone keep the order of a step: InProgress
\* snapshots, the Complete assistant message, the Tool messages.
C16_InterleavedButOrdered ==
    sub.made =>
        /\ SelectSeq(stream, SubEvent) = SelectSeq(sub.sent, LoopEvent)
        /\ StepOrdered(SelectSeq(stream, SubEvent))
        /\ StepOrdered(SelectSeq(stream, ParentEvent))

C16_Witness ==
    /\ AttachedFromStart
    /\ \E i, j, k, l \in DOMAIN stream :
        /\ i < j /\ j < k /\ k < l
        /\ ParentEvent(stream[i]) /\ PhaseOf(stream[i]) = 1
        /\ SubEvent(stream[j]) /\ PhaseOf(stream[j]) = 1
        /\ ParentEvent(stream[k]) /\ PhaseOf(stream[k]) = 2
        /\ SubEvent(stream[l]) /\ PhaseOf(stream[l]) = 3
    /\ \E i \in DOMAIN stream : ParentEvent(stream[i]) /\ PhaseOf(stream[i]) = 3

\* C17: the condition of the stream (subscribed, without receivers, cleared)
\* is never a reason for the loop to stop or fail: no run ends with a send
\* failure, an event handed to a cleared sender is dropped, and a run whose
\* stream was never read stops only at its own ends (the cap, a terminating
\* tool, a shutdown, one of the six failures) with one LLM request per step.
C17_StreamNeverDecides ==
    /\ [](ended # "send_error")
    /\ [][(~stream_tx) => (stream' = stream)]_vars
    /\ []((pc = "done" /\ caller # "subscribed")
            => /\ ended \in ErrorEnds \cup {"cap", "terminated", "shutdown"}
               /\ ended = "cap" => Len(llm_requests) = MaxDepth
               /\ \A i \in DOMAIN llm_requests : llm_requests[i].depth = i - 1)

C17_Witness ==
    /\ pc = "done"
    /\ ended = "cap"
    /\ caller = "failed"
    /\ stream = <<>>
    /\ Len(llm_requests) = MaxDepth
    /\ Len(dispatched) >= MaxDepth - 1
    /\ Len(appended) >= 2 * (MaxDepth - 1)

\* C18: a failure of a trace operation is not an outcome of the run: no run
\* ends because of one, and an Err event is on the stream only when one of
\* the six failures of the loop occurred.
C18_TraceFailureHarmless ==
    /\ ended # "trace_error"
    /\ CountType(stream, "err") > 0 => ended \in ErrorEnds

\* C19: when an assistant message of a step goes on the stream, the content
\* of every snapshot the step has sent before begins its content, and when
\* it is the Complete message it holds every tool call of those snapshots.
C19_SnapshotsGrow ==
    [][\A j \in (Len(stream) + 1)..Len(stream') :
         (Snapshot(stream'[j]) \/ CompleteMsg(stream'[j])) =>
            \A i \in 1..(j - 1) :
               SnapshotOf(stream', i, j) =>
                  /\ TextPrefix(stream'[i].content, stream'[j].content)
                  /\ CompleteMsg(stream'[j]) =>
                        \A n \in DOMAIN stream'[i].tool_calls :
                            CallKept(stream'[i].tool_calls[n], stream'[j])]_vars

C19_Witness ==
    \E i, j, k \in DOMAIN stream :
        /\ j = i + 1 /\ k = j + 1
        /\ Snapshot(stream[i]) /\ Snapshot(stream[j]) /\ CompleteMsg(stream[k])
        /\ Len(stream[i].tool_calls) = 1
        /\ Len(stream[k].tool_calls) = 1
        /\ stream[k].tool_calls[1].id = stream[i].tool_calls[1].id
        /\ Len(stream[k].tool_calls[1].arguments) > Len(stream[i].tool_calls[1].arguments)

\* C20: the Complete assistant message a step builds holds one tool call for
\* each call accumulated in the step's buffer, neither more nor fewer, and
\* the snapshots the step sent before it carry its message id.
C20_CompleteHasAllCalls ==
    [][(pc = "chunks") =>
         /\ \A j \in (Len(appended) + 1)..Len(appended') :
               CompleteMsg(appended'[j]) =>
                  /\ Len(appended'[j].tool_calls) = Cardinality(buffer.tool_calls)
                  /\ {appended'[j].tool_calls[n] : n \in DOMAIN appended'[j].tool_calls}
                        = {into_tool_call(p) : p \in buffer.tool_calls}
         /\ \A j \in (Len(stream) + 1)..Len(stream') :
               CompleteMsg(stream'[j]) =>
                  \A i \in 1..(j - 1) :
                     SnapshotOf(stream', i, j) => stream'[i].id = stream'[j].id]_vars

C20_Witness ==
    /\ Cardinality(buffer.tool_calls) = 2
    /\ \E i, j, k \in DOMAIN stream :
        /\ j = i + 1 /\ k = j + 1
        /\ Snapshot(stream[i]) /\ Snapshot(stream[j]) /\ CompleteMsg(stream[k])
        /\ Len(stream[i].tool_calls) = 1
        /\ Len(stream[k].tool_calls) = 2
        /\ stream[k].id = buffer.message_id

\* C21: when of each tool call of a response only the first delta carries the
\* id, the deltas of one index are all filed under one pending call: no delta
\* goes to the pending call of another index.
C21_SameIndexSameCall ==
    FirstDeltaHasId =>
        \A m, n \in DOMAIN fed :
            (fed[m].index = fed[n].index) <=> (fed[m].key = fed[n].key)

\* C22: a pending tool call has the name and the type of the first delta
\* that supplied one among the deltas merged into it, and its arguments are
\* the fragments of those deltas joined in arrival order.
C22_FirstNameWins ==
    \A p \in buffer.tool_calls :
        /\ p.function_name = FirstName(FiledUnder(p.key))
        /\ p.call_type = FirstType(FiledUnder(p.key))
        /\ p.arguments = JoinArguments(FiledUnder(p.key))

\* C23: two argument fragments fed one after the other and their
\* concatenation fed as one delta leave the same tool calls for the final
\* message, whatever the buffer held before.
C23_FragmentsOrJoined ==
    \A f \in Fragments, g \in Fragments :
    \A b1 \in MergeDeltas({buffer}, <<ArgsDelta(f), ArgsDelta(g)>>) :
    \A b2 \in MergeDeltas({buffer}, <<ArgsDelta(f \o g)>>) :
        FinalCalls(b1) = FinalCalls(b2)

\* C24: every tool call of the final message has an id, the ids of the calls
\* of one message differ, and the Tool message of a call carries the id.
C24_CallsHaveIds ==
    /\ \A p \in buffer.tool_calls :
          /\ into_tool_call(p).id # NoId
          /\ ToolResultMsg(into_tool_call(p)).call_id = into_tool_call(p).id
          /\ UnknownToolMsg(into_tool_call(p)).call_id = into_tool_call(p).id
    /\ \A p, q \in buffer.tool_calls :
          p # q => into_tool_call(p).id # into_tool_call(q).id

\* C25: once a run has installed its thread, every new value of the current
\* thread begins with the previous one: an append by update_current_thread
\* and the thread a step installs both keep every message that was there.
C25_ThreadAppendOnly ==
    [][current_thread.some =>
          /\ current_thread'.some
          /\ TextPrefix(current_thread.messages, current_thread'.messages)]_vars

\* C26: after set_state_value or an inserting update_state, get_state_value
\* returns the value written and state_key_exists is true; the keys the
\* operation did not write keep what they held; get_state_bool returns a
\* value exactly for the stored booleans; after clear_state no key is there.
C26_StoreReadsLastWrite ==
    /\ [](\A k \in DOMAIN last_op.written :
            /\ get_state_value(state, k) = last_op.written[k]
            /\ state_key_exists(state, k))
    /\ [](\A k \in StateKeys :
            get_state_bool(state, k) =
                IF get_state_value(state, k) \in {"false", "true"}
                THEN get_state_value(state, k) ELSE "absent")
    /\ []((last_op.op = "clear") =>
            \A k \in StateKeys : /\ get_state_value(state, k) = "absent"
                                 /\ ~state_key_exists(state, k)
                                 /\ get_state_bool(state, k) = "absent")
    /\ [][\A k \in StateKeys :
            (last_op'.op # "clear" /\ k \notin DOMAIN last_op'.written)
                => get_state_value(state', k) = get_state_value(state, k)]_vars

C26_Witness ==
    /\ last_op.op = "set"
    /\ \E k \in DOMAIN last_op.written :
        /\ last_op.written[k] = "text"
        /\ get_state_bool(state, k) = "absent"
        /\ state_key_exists(state, k)
    /\ \E k \in StateKeys : get_state_bool(state, k) = "true"
    /\ \E k \in StateKeys : ~state_key_exists(state, k)

\* C27: from the spawn of a run started by BusterMultiAgent::run on, the
\* state holds under "user_prompt" the content of the last User message of
\* the thread given (Null without one), and the snapshot step 0 hands to the
\* mode provider holds it too.
C27_PromptStampedBeforeStep0 ==
    /\ (pc # "idle" /\ depth = 0 /\ pc # "done") => Stamped(state, thread)
    /\ (pc \in {"mode", "open", "chunks", "tool"} /\ depth = 0)
          => Stamped(snapshot, thread)
    /\ \A j \in DOMAIN llm_requests :
          llm_requests[j].depth = 0
              => Stamped(llm_requests[j].snapshot, llm_requests[j].messages)

C27_Witness ==
    /\ llm_requests # <<>>
    /\ llm_requests[1].snapshot["user_prompt"] = "metrics?"
    /\ Len(SelectSeq(llm_requests[1].messages, LAMBDA msg : msg.type = "user")) = 2

\* C28: process_thread returns Ok with the last message it received when
\* the loop stops at the first Done with a message in hand, an error when
\* the first Done or Err comes with none or an Err event comes at all, it
\* takes nothing after that event, and for every run that has ended it
\* eventually returns.
C28_ProcessThreadReturns ==
    /\ [](LET i == rx_from + pt.taken + 1 IN
            /\ \A n \in (rx_from + 1)..(i - 1) :
                  n <= Len(stream) /\ stream[n].type \notin {"done", "err"}
            /\ pt.final_message =
                  IF pt.taken = 0 THEN <<>> ELSE <<stream[i - 1]>>
            /\ (pt.returned = "ok") =>
                  /\ pt.taken > 0
                  /\ (i <= Len(stream) /\ stream[i] = DoneMsg) \/ ~stream_tx
            /\ (pt.returned = "no_message") =>
                  /\ pt.taken = 0
                  /\ (i <= Len(stream) /\ stream[i] = DoneMsg) \/ ~stream_tx
            /\ (pt.returned = "err") => (i <= Len(stream) /\ stream[i] = ErrEvent)
            /\ (pt.returned = "streaming_err") => caller = "failed")
    /\ ((pc = "done") ~> (pt.returned # "no"))

RECURSIVE NonDeveloper(_)
NonDeveloper(ms) ==
    IF ms = <<>> THEN <<>>
    ELSE IF Head(ms).type = "developer" THEN NonDeveloper(Tail(ms))
    ELSE <<Head(ms)>> \o NonDeveloper(Tail(ms))

\* C30: the request a step sends has exactly one Developer message, its
\* first, holding the prompt of the step's mode, followed by the current
\* thread's other messages in the thread's order.
C30_OneDeveloperFirst ==
    [][(Len(llm_requests') = Len(llm_requests) + 1) =>
        LET req == llm_requests'[Len(llm_requests')]
            ms  == req.messages
        IN /\ ms[1] = DeveloperMsg(ModeConfiguration(snapshot).prompt)
           /\ \A k \in 2..Len(ms) : ms[k].type # "developer"
           /\ Tail(ms) = NonDeveloper(current_thread'.messages)
           /\ current_thread'.messages = current_thread.messages]_vars

\* A request of the second step of a thread that holds a Developer message
\* between two User messages
C30_Witness ==
    /\ Len(llm_requests) = 2
    /\ pc = "open"
    /\ Len(current_thread.messages) > 3
    /\ current_thread.messages[2].type = "developer"
    /\ Len(llm_requests[2].messages) = Len(current_thread.messages)

\* C31: a step whose Complete assistant message has no tool calls is
\* followed by the step at depth d+1 on the thread extended by that
\* message; only the depth check of that next step can end the run there.
C31_ToolLessAnswerRecurses ==
    [][(/\ pc = "chunks"
        /\ Len(appended') = Len(appended) + 1
        /\ CompleteMsg(appended'[Len(appended')])
        /\ appended'[Len(appended')].tool_calls = <<>>) =>
          /\ depth' = depth + 1
          /\ thread' = Append(current_thread.messages, appended'[Len(appended')])
          /\ current_thread'.messages = thread'
          /\ \/ pc' = "mode" /\ ended' = ended
             \/ DepthExceeded(depth + 1) /\ ended' = "cap"]_vars

\* C32: the stream of a single-agent run holds at most one Done event,
\* whichever way the run ends.
C32_AtMostOneDone ==
    Cardinality({i \in DOMAIN stream : stream[i] = DoneMsg}) <= 1

\* C33: the receiver process_thread_streaming returns was subscribed before
\* the task emitted anything, so what it observes is the whole stream of
\* the run.
C33_ReceiverSeesEveryEvent ==
    (caller = "subscribed") =>
        SubSeq(stream, rx_from + 1, Len(stream)) = stream

\* C34: once a derived agent has reached its depth cap, the stream of the
\* agent it was derived from is still open: what that agent sends is
\* delivered and a subscription succeeds.
C34_ParentStreamStaysOpen ==
    (sub.ended = "cap") => (stream_tx /\ caller # "failed")

\* C35: while the run of the agent a derived agent shares its stream with
\* is in progress, the stream holds no Done.
C35_NoDoneWhileParentRuns ==
    (pc \in {"spawned", "mode", "open", "chunks", "tool"}) =>
        \A i \in DOMAIN stream : stream[i] # DoneMsg

\* C36: when process_thread_streaming has returned the error of a closed
\* stream, nothing was processed for the call: there is no LLM request and
\* no dispatched tool call, and the current thread, the registry and the
\* terminating list are what they were before the call.
C36_ClosedStreamStartsNothing ==
    (caller = "failed") =>
        /\ llm_requests = <<>>
        /\ dispatched = <<>>
        /\ ~current_thread.some
        /\ tools = {}
        /\ terminating_tool_names = {}

\* C37: a shutdown() on an agent without a subscribed run returns an error
\* and leaves nothing behind: the receiver of a run started afterwards is
\* empty, and a receiver only ever holds a signal sent while it listened.
C37_UnheardShutdownForgotten ==
    [][/\ (shutdown_rx = "none" /\ shutdown_err' # shutdown_err) =>
             (shutdown_err' /\ UNCHANGED <<agentVars, stream, runVars_NoAux, sub>>)
       /\ (pc = "idle" /\ pc' = "spawned") => shutdown_rx' = "empty"
       /\ (shutdown_rx' = "fired") => shutdown_rx \in {"empty", "fired"}]_vars

\* A run started after such a shutdown() went through a tool step and its
\* second step, and its terminating tool ended it.
C37_Witness ==
    /\ shutdown_err
    /\ ended = "terminated"
    /\ depth = 1
    /\ Len(llm_requests) = 2

\* C38: no call made from inside the loop waits for a lock whose guard the
\* loop's own task holds while it awaits that call.
C38_NoWaitOnOwnGuard ==
    lock_wait \notin ReadGuards(pc)

\* C39: when a run has ended otherwise than by shutdown, every tool call of
\* every Assistant message of the current thread has exactly one Tool
\* message with its call_id later in the current thread.
C39_EveryCallAnswered ==
    (pc = "done" /\ ended # "shutdown" /\ current_thread.some) =>
        LET ms == current_thread.messages IN
        \A i \in DOMAIN ms :
            (ms[i].type = "assistant") =>
                \A n \in DOMAIN ms[i].tool_calls :
                    Cardinality({j \in (i + 1)..Len(ms) :
                                    /\ ms[j].type = "tool"
                                    /\ ms[j].call_id = ms[i].tool_calls[n].id}) = 1

====
